---- MODULE Spec2Model ----
(***************************************************************************)
(* Model of the bingWallpaper library: the metadata Client, the filename   *)
(* generator, the image storage facade and the Downloader that drives      *)
(* them over one day or a batch of days.                                   *)
(*                                                                         *)
(* Strings are sequences of one-character strings. Go errors are chains    *)
(* of tags (the empty chain is nil); fmt.Errorf wrapping prepends a tag.   *)
(* Every network request and storage write is appended to `log`.           *)
(***************************************************************************)
EXTENDS Integers, Sequences, FiniteSets, TLC

(* ------------------------------ bounds --------------------------------- *)

\* Largest number of records the modelled archive holds and a response carries.
MaxRecords == 3

\* Largest in-range day count / offset the callers pass besides the edge values.
MaxDays == 3

\* Longest title, copyright and custom file name the naming functions are given.
MaxStrLen == 3

\* Largest number of pieces a record's relative image URL is made of.
MaxPieces == 3

\* Largest number of calls made on one CustomFilenameGenerator.
MaxCalls == 3

\* Largest number of requests and writes of one run that the environment lets
\* fail when the outcomes are free.
MaxFaults == 2

\* client.go:240 and downloader.go:202: the day count must be in 1..MaxBatchDays.
MaxBatchDays == 16

(* ------------------------------ strings -------------------------------- *)

\* The full-width comma, one code point, as one character of the model.
FWComma == "FWCOMMA"

\* The ideographic space U+3000, one code point, as one character of the model.
IdeographicSpace == "U+3000"

\* The runes unicode.IsSpace holds of, which strings.TrimSpace trims: the six
\* of ASCII, U+0085 and U+00A0 of Latin-1, and the other code points with the
\* White_Space property; a rune outside ASCII is written by its code point.
Whitespace ==
  {" ", "\t", "\n", "\r", "\f", "U+000B", "U+0085", "U+00A0", "U+1680",
   "U+2000", "U+2001", "U+2002", "U+2003", "U+2004", "U+2005", "U+2006",
   "U+2007", "U+2008", "U+2009", "U+200A", "U+2028", "U+2029", "U+202F",
   "U+205F", IdeographicSpace}

RECURSIVE ReplaceAllFirstOnly(_, _, _)
\* Mutant: only the first occurrence is replaced.
ReplaceAllFirstOnly(s, old, new) ==
  IF s = <<>> THEN <<>>
  ELSE IF Head(s) = old THEN new \o Tail(s)
       ELSE <<Head(s)>> \o ReplaceAllFirstOnly(Tail(s), old, new)

RECURSIVE ReplaceAll(_, _, _)
\* strings.ReplaceAll(s, old, new) for a one-character old and a string new.
ReplaceAll(s, old, new) ==
  IF s = <<>> THEN <<>>
  ELSE (IF Head(s) = old THEN new ELSE <<Head(s)>>) \o ReplaceAll(Tail(s), old, new)

RECURSIVE TrimLeft(_)
TrimLeft(s) ==
  IF s # <<>> /\ Head(s) \in Whitespace THEN TrimLeft(Tail(s)) ELSE s

RECURSIVE TrimRight(_)
TrimRight(s) ==
  IF s # <<>> /\ s[Len(s)] \in Whitespace THEN TrimRight(SubSeq(s, 1, Len(s) - 1)) ELSE s

\* strings.TrimSpace
TrimSpace(s) == TrimRight(TrimLeft(s))

RECURSIVE SplitFirst(_, _)
\* strings.Split(s, sep)[0]: the text before the first sep, or all of s.
SplitFirst(s, sep) ==
  IF s = <<>> \/ Head(s) = sep THEN <<>>
  ELSE <<Head(s)>> \o SplitFirst(Tail(s), sep)

RECURSIVE PathElements(_, _)
\* The "/"-separated elements of a path, empty ones dropped; cur is the
\* element being read.
PathElements(s, cur) ==
  IF s = <<>> THEN (IF cur = <<>> THEN <<>> ELSE <<cur>>)
  ELSE IF Head(s) = "/"
       THEN (IF cur = <<>> THEN <<>> ELSE <<cur>>) \o PathElements(Tail(s), <<>>)
       ELSE PathElements(Tail(s), Append(cur, Head(s)))

RECURSIVE CleanElements(_, _, _)
\* path.Clean's element rules: "." is dropped, ".." removes the element
\* before it, is dropped at the root and kept at the start of a relative path.
CleanElements(els, stack, rooted) ==
  IF els = <<>> THEN stack
  ELSE LET e == Head(els) IN
       IF e = <<".">> THEN CleanElements(Tail(els), stack, rooted)
       ELSE IF e = <<".", ".">>
            THEN IF stack # <<>> /\ stack[Len(stack)] # <<".", ".">>
                 THEN CleanElements(Tail(els), SubSeq(stack, 1, Len(stack) - 1), rooted)
                 ELSE IF rooted THEN CleanElements(Tail(els), stack, rooted)
                      ELSE CleanElements(Tail(els), Append(stack, e), rooted)
            ELSE CleanElements(Tail(els), Append(stack, e), rooted)

RECURSIVE JoinElements(_)
JoinElements(els) ==
  IF els = <<>> THEN <<>>
  ELSE IF Len(els) = 1 THEN els[1]
       ELSE els[1] \o <<"/">> \o JoinElements(Tail(els))

\* filepath.Clean on a "/"-separated path.
Clean(p) ==
  IF p = <<>> THEN <<".">>
  ELSE LET rooted == Head(p) = "/"
           body == JoinElements(CleanElements(PathElements(p, <<>>), <<>>, rooted))
       IN IF rooted THEN <<"/">> \o body
          ELSE IF body = <<>> THEN <<".">> ELSE body

\* filepath.Join(a, b): empty elements are ignored, the rest is cleaned.
Join(a, b) ==
  IF a = <<>> /\ b = <<>> THEN <<>>
  ELSE IF a = <<>> THEN Clean(b)
       ELSE IF b = <<>> THEN Clean(a)
            ELSE Clean(a \o <<"/">> \o b)

\* strings.HasPrefix
HasPrefix(s, prefix) == Len(s) >= Len(prefix) /\ SubSeq(s, 1, Len(prefix)) = prefix

RECURSIVE ReplaceEvery(_, _, _)
\* Mutant: every occurrence of old is replaced, not the first only.
ReplaceEvery(s, old, new) ==
  IF s = <<>> THEN <<>>
  ELSE IF HasPrefix(s, old)
       THEN new \o ReplaceEvery(SubSeq(s, Len(old) + 1, Len(s)), old, new)
       ELSE <<Head(s)>> \o ReplaceEvery(Tail(s), old, new)

RECURSIVE ReplaceFirst(_, _, _)
\* strings.Replace(s, old, new, 1) for a non-empty old: the first occurrence of
\* old, read from the left, is replaced and the rest is kept.
ReplaceFirst(s, old, new) ==
  IF s = <<>> THEN <<>>
  ELSE IF HasPrefix(s, old) THEN new \o SubSeq(s, Len(old) + 1, Len(s))
       ELSE <<Head(s)>> \o ReplaceFirst(Tail(s), old, new)

(* ------------------------- filename generator -------------------------- *)

\* Mutant: the replacement chain is lost, only the trim is left.
SanitizeDescriptionTrimOnly(d) == TrimSpace(d)

\* Mutant: the replacement of "/" is lost from the chain.
SanitizeDescriptionSlashKept(d) ==
  LET s0 == TrimSpace(d)
      s1 == ReplaceAll(s0, " ", <<"_">>)
      s3 == ReplaceAll(s1, "\\", <<"-">>)
      s4 == ReplaceAll(s3, ":", <<"-">>)
      s5 == ReplaceAll(s4, "?", <<>>)
      s6 == ReplaceAll(s5, "*", <<>>)
      s7 == ReplaceAll(s6, "<", <<>>)
      s8 == ReplaceAll(s7, ">", <<>>)
      s9 == ReplaceAll(s8, "|", <<"-">>)
  IN ReplaceAll(s9, "\"", <<"'">>)

\* The replacement chain of GenerateImageFilename, in the code's order.
SanitizeDescription(d) ==
  LET s0 == TrimSpace(d)
      s1 == ReplaceAll(s0, " ", <<"_">>)
      s2 == ReplaceAll(s1, "/", <<"-">>)
      s3 == ReplaceAll(s2, "\\", <<"-">>)
      s4 == ReplaceAll(s3, ":", <<"-">>)
      s5 == ReplaceAll(s4, "?", <<>>)
      s6 == ReplaceAll(s5, "*", <<>>)
      s7 == ReplaceAll(s6, "<", <<>>)
      s8 == ReplaceAll(s7, ">", <<>>)
      s9 == ReplaceAll(s8, "|", <<"-">>)
  IN ReplaceAll(s9, "\"", <<"'">>)

\* Mutant: the copyright is preferred to the title.
DescriptionCopyrightFirst(imageData) ==
  SanitizeDescription(
    IF imageData.Copyright # <<>>
    THEN SplitFirst(SplitFirst(imageData.Copyright, FWComma), "(")
    ELSE imageData.Title)

\* The description the default generator embeds in the image file name.
Description(imageData) ==
  SanitizeDescription(
    IF imageData.Title # <<>> THEN imageData.Title
    ELSE SplitFirst(SplitFirst(imageData.Copyright, FWComma), "("))

\* DefaultFilenameGenerator.GenerateImageFilename
GenerateImageFilename(imageData, basePath) ==
  Join(basePath,
       imageData.Startdate \o <<"_">> \o Description(imageData) \o <<".", "j", "p", "g">>)

\* DefaultFilenameGenerator.GenerateJsonFilename
GenerateJsonFilename(imageData, basePath) ==
  Join(basePath,
       <<"b", "i", "n", "g", "_", "d", "a", "t", "a", "_">> \o imageData.Startdate
         \o <<".", "j", "s", "o", "n">>)

\* Mutant: the leading and trailing whitespace is kept.
ExtractWallpaperDescriptionNoTrim(imageData) ==
  LET d0 == IF imageData.Title = <<>>
            THEN SplitFirst(SplitFirst(imageData.Copyright, FWComma), "(")
            ELSE imageData.Title
      d2 == ReplaceAll(d0, " ", <<"_">>)
      d3 == ReplaceAll(d2, "/", <<"-">>)
      d4 == ReplaceAll(d3, "\\", <<"-">>)
      d5 == ReplaceAll(d4, ":", <<"-">>)
      d6 == ReplaceAll(d5, "?", <<>>)
      d7 == ReplaceAll(d6, "*", <<>>)
      d8 == ReplaceAll(d7, "<", <<>>)
      d9 == ReplaceAll(d8, ">", <<>>)
      d10 == ReplaceAll(d9, "|", <<"-">>)
  IN ReplaceAll(d10, "\"", <<"'">>)

\* ExtractWallpaperDescription of the utilities: the title, or the copyright
\* before its first full-width comma and then before its first "(", trimmed
\* and put through the replacements in the code's order.
ExtractWallpaperDescription(imageData) ==
  LET d0 == IF imageData.Title = <<>>
            THEN SplitFirst(SplitFirst(imageData.Copyright, FWComma), "(")
            ELSE imageData.Title
      d1 == TrimSpace(d0)
      d2 == ReplaceAll(d1, " ", <<"_">>)
      d3 == ReplaceAll(d2, "/", <<"-">>)
      d4 == ReplaceAll(d3, "\\", <<"-">>)
      d5 == ReplaceAll(d4, ":", <<"-">>)
      d6 == ReplaceAll(d5, "?", <<>>)
      d7 == ReplaceAll(d6, "*", <<>>)
      d8 == ReplaceAll(d7, "<", <<>>)
      d9 == ReplaceAll(d8, ">", <<>>)
      d10 == ReplaceAll(d9, "|", <<"-">>)
  IN ReplaceAll(d10, "\"", <<"'">>)

RECURSIVE ExtFrom(_, _)
\* The loop of filepath.Ext: from position k down to the last separator, the
\* suffix from the first dot met.
ExtFrom(path, k) ==
  IF k < 1 \/ path[k] = "/" THEN <<>>
  ELSE IF path[k] = "." THEN SubSeq(path, k, Len(path))
       ELSE ExtFrom(path, k - 1)

\* filepath.Ext
Ext(path) == ExtFrom(path, Len(path))

\* Mutant: ".jpg" is appended whatever the name's extension.
WithJpgExtensionAlways(customFilename) == customFilename \o <<".", "j", "p", "g">>

\* CustomFilenameGenerator.GenerateImageFilename, main.go:31-33: the value of
\* g.CustomFilename after the extension check.
WithJpgExtension(customFilename) ==
  IF Ext(customFilename) = <<>> THEN customFilename \o <<".", "j", "p", "g">>
  ELSE customFilename

(* ------------------------------ errors --------------------------------- *)

\* A Go error is a chain of tags, outermost first; nil is the empty chain.
NoErr == <<>>

\* fmt.Errorf("<tag>: %v", err)
Wrap(tag, err) == <<tag>> \o err

\* The ways Client.sendRequest fails once http.NewRequest has made the
\* request: httpClient.Do, the status check, io.ReadAll.
SentFailures == {"transport", "status", "read"}

\* The ways Client.sendRequest fails: http.NewRequest (nothing is sent then),
\* or one of the above.
SendFailures == {"newRequest"} \cup SentFailures

\* The bytes url.Parse calls control bytes (stringContainsCTLByte: b < 0x20 or
\* b = 0x7f); a byte without an escape in this notation is written by its
\* code point.
ControlCharacters ==
  {   "U+0000", "U+0001", "U+0002", "U+0003", "U+0004", "U+0005", "U+0006", "U+0007",
   "U+0008", "\t", "\n", "U+000B", "\f", "\r", "U+000E", "U+000F", "U+0010", "U+0011",
   "U+0012", "U+0013", "U+0014", "U+0015", "U+0016", "U+0017", "U+0018", "U+0019",
   "U+001A", "U+001B", "U+001C", "U+001D", "U+001E", "U+001F", "U+007F"}

\* The printable characters of ASCII in the order of their codes, 0x20 to 0x7e
\* (the grave accent, 0x60, is written by its code point).
AsciiPrintable ==
  <<    " ", "!", "\"", "#", "$", "%", "&", "'", "(", ")", "*", "+", ",", "-", ".", "/",
    "0", "1", "2", "3", "4", "5", "6", "7", "8", "9", ":", ";", "<", "=", ">", "?",
    "@", "A", "B", "C", "D", "E", "F", "G", "H", "I", "J", "K", "L", "M", "N", "O",
    "P", "Q", "R", "S", "T", "U", "V", "W", "X", "Y", "Z", "[", "\\", "]", "^", "_",
    "U+0060", "a", "b", "c", "d", "e", "f", "g", "h", "i", "j", "k", "l", "m", "n", "o",
    "p", "q", "r", "s", "t", "u", "v", "w", "x", "y", "z", "{", "|", "}", "~">>

LetterCharacters ==
  {   "a", "b", "c", "d", "e", "f", "g", "h", "i", "j", "k", "l", "m", "n", "o", "p", "q",
   "r", "s", "t", "u", "v", "w", "x", "y", "z", "A", "B", "C", "D", "E", "F", "G", "H",
   "I", "J", "K", "L", "M", "N", "O", "P", "Q", "R", "S", "T", "U", "V", "W", "X", "Y",
   "Z"}

DigitCharacters == {"0", "1", "2", "3", "4", "5", "6", "7", "8", "9"}

\* ishex
HexCharacters ==
  DigitCharacters \cup {"a", "b", "c", "d", "e", "f", "A", "B", "C", "D", "E", "F"}

\* unhex
HexValue(c) ==
  LET digits == <<"0", "1", "2", "3", "4", "5", "6", "7", "8", "9">>
      lower  == <<"a", "b", "c", "d", "e", "f">>
      upper  == <<"A", "B", "C", "D", "E", "F">> IN
  CHOOSE v \in 0..15 :
    IF v < 10 THEN c = digits[v + 1] ELSE c = lower[v - 9] \/ c = upper[v - 9]

\* The characters that are one byte below 0x80; every other character is a
\* rune outside ASCII, whose bytes are all 0x80 or more.
AsciiCharacters == ControlCharacters \cup {AsciiPrintable[k] : k \in DOMAIN AsciiPrintable}

\* The ASCII characters shouldEscape(c, encodeHost) is false of: letters,
\* digits, the characters allowed in a host, and - _ . ~
HostCharacters ==
  LetterCharacters \cup DigitCharacters
    \cup {"!", "$", "&", "'", "(", ")", "*", "+", ",", ";", "=", ":", "[", "]", "<", ">",
          "\"", "-", "_", ".", "~"}

\* The characters validUserinfo allows.
UserinfoCharacters ==
  LetterCharacters \cup DigitCharacters
    \cup {"-", ".", "_", ":", "~", "!", "$", "&", "'", "(", ")", "*", "+", ",", ";", "=",
          "%", "@"}

\* strings.Index and strings.LastIndex for a one-character substring, counted
\* from 1; 0 when there is none.
FirstIndex(s, c) ==
  LET at == {k \in DOMAIN s : s[k] = c} IN
  IF at = {} THEN 0 ELSE CHOOSE k \in at : \A j \in at : k <= j
LastIndex(s, c) ==
  LET at == {k \in DOMAIN s : s[k] = c} IN
  IF at = {} THEN 0 ELSE CHOOSE k \in at : \A j \in at : j <= k

\* The text before the first c (all of s when it has none) and after it.
CutBefore(s, c) == LET i == FirstIndex(s, c) IN IF i = 0 THEN s ELSE SubSeq(s, 1, i - 1)
CutAfter(s, c) == LET i == FirstIndex(s, c) IN IF i = 0 THEN <<>> ELSE SubSeq(s, i + 1, Len(s))

\* Whether unescape(s, mode) succeeds for the modes of a path, a fragment and
\* a user name or password: every % starts an escape.
EscapesValid(s) ==
  \A k \in DOMAIN s :
    s[k] = "%" => k + 2 <= Len(s) /\ s[k + 1] \in HexCharacters /\ s[k + 2] \in HexCharacters

\* Whether unescape(s, encodeHost) succeeds: an escape is %25 or of a byte of
\* 0x80 or more, and every other ASCII character is a host character.
HostEscapesValid(s) ==
  /\ EscapesValid(s)
  /\ \A k \in DOMAIN s :
       IF s[k] = "%"
       THEN HexValue(s[k + 1]) >= 8 \/ (s[k + 1] = "2" /\ s[k + 2] = "5")
       ELSE s[k] \notin AsciiCharacters \ HostCharacters

\* Whether unescape(s, encodeZone) succeeds: an escape is %25, of the space,
\* or of a host character.
ZoneEscapesValid(s) ==
  /\ EscapesValid(s)
  /\ \A k \in DOMAIN s :
       IF s[k] = "%"
       THEN LET v == 16 * HexValue(s[k + 1]) + HexValue(s[k + 2]) IN
            \/ v = 37
            \/ v = 32
            \/ v >= 32 /\ v <= 126 /\ AsciiPrintable[v - 31] \in HostCharacters
       ELSE s[k] \notin AsciiCharacters \ HostCharacters

\* validOptionalPort: nothing, or a colon and digits.
validOptionalPort(port) ==
  port = <<>> \/ (port[1] = ":" /\ \A k \in 2..Len(port) : port[k] \in DigitCharacters)

\* Whether parseHost succeeds, as in the releases from Go 1.16 (the
\* repository's minimum) to Go 1.24.
parseHost(host) ==
  IF HasPrefix(host, <<"[">>)
  THEN LET i == LastIndex(host, "]")
           \* where "%25" first stands before the bracket, 0 when nowhere
           at == {k \in 1..(i - 3) : SubSeq(host, k, k + 2) = <<"%", "2", "5">>}
           zone == IF at = {} THEN 0 ELSE CHOOSE k \in at : \A j \in at : k <= j IN
       /\ i > 0
       /\ validOptionalPort(SubSeq(host, i + 1, Len(host)))
       /\ IF zone > 0
          THEN /\ HostEscapesValid(SubSeq(host, 1, zone - 1))
               /\ ZoneEscapesValid(SubSeq(host, zone, i - 1))
               /\ HostEscapesValid(SubSeq(host, i, Len(host)))
          ELSE HostEscapesValid(host)
  ELSE /\ LastIndex(host, ":") > 0 =>
            validOptionalPort(SubSeq(host, LastIndex(host, ":"), Len(host)))
       /\ HostEscapesValid(host)

\* Whether parseAuthority succeeds.
parseAuthority(authority) ==
  LET i == LastIndex(authority, "@")
      userinfo == SubSeq(authority, 1, i - 1) IN
  /\ parseHost(SubSeq(authority, i + 1, Len(authority)))
  /\ i > 0 =>
       /\ \A k \in DOMAIN userinfo : userinfo[k] \in UserinfoCharacters
       /\ EscapesValid(CutBefore(userinfo, ":"))
       /\ EscapesValid(CutAfter(userinfo, ":"))

\* getScheme: where the scan for a scheme stops, 0 when it reaches the end.
SchemeStop(rawURL) ==
  LET stops == {k \in DOMAIN rawURL :
                  /\ rawURL[k] \notin LetterCharacters
                  /\ k = 1 \/ rawURL[k] \notin DigitCharacters \cup {"+", "-", "."}} IN
  IF stops = {} THEN 0 ELSE CHOOSE k \in stops : \A j \in stops : k <= j

\* How url.parse(u, false) reads u, a URL without its fragment: whether the
\* scheme is missing (a colon comes first), whether there is one, what
\* follows it up to the query, and the authority and the path in that.
URLParts(u) ==
  LET k == SchemeStop(u)
      hasScheme == k > 1 /\ u[k] = ":"
      rest == CutBefore(IF hasScheme THEN SubSeq(u, k + 1, Len(u)) ELSE u, "?")
      hasAuthority ==
        /\ hasScheme \/ ~HasPrefix(rest, <<"/", "/", "/">>)
        /\ HasPrefix(rest, <<"/", "/">>)
      afterSlashes == SubSeq(rest, 3, Len(rest))
  IN [missingScheme |-> k = 1 /\ u[1] = ":",
      hasScheme     |-> hasScheme,
      rest          |-> rest,
      hasAuthority  |-> hasAuthority,
      authority     |-> IF hasAuthority THEN CutBefore(afterSlashes, "/") ELSE <<>>,
      path          |-> IF ~hasAuthority THEN rest
                        ELSE IF FirstIndex(afterSlashes, "/") = 0 THEN <<>>
                        ELSE SubSeq(afterSlashes, FirstIndex(afterSlashes, "/"),
                                    Len(afterSlashes))]

\* Whether url.parse(u, false) succeeds.
parse(u) ==
  LET parts == URLParts(u) IN
  /\ \A k \in DOMAIN u : u[k] \notin ControlCharacters
  /\ \/ u = <<"*">>
     \/ /\ ~parts.missingScheme
        /\ \/ ~HasPrefix(parts.rest, <<"/">>) /\ parts.hasScheme
           \/ /\ HasPrefix(parts.rest, <<"/">>) \/ FirstIndex(CutBefore(parts.rest, "/"), ":") = 0
              /\ parts.hasAuthority => parseAuthority(parts.authority)
              /\ EscapesValid(parts.path)

\* Whether http.NewRequest accepts the URL, that is whether url.Parse does
\* (request.go: the method "GET" is valid): the text before the first "#" is
\* parsed, and a fragment after it must unescape. This is url.Parse as it is
\* from Go 1.16 to Go 1.24.
URLParses(rawURL) ==
  /\ parse(CutBefore(rawURL, "#"))
  /\ EscapesValid(CutAfter(rawURL, "#"))

\* Whether the URL, one that url.Parse accepts in those releases, is one that
\* later releases may reject: its host has a "[" (later releases require a valid
\* IPv6 address in brackets; which bracketed hosts they keep is not decided
\* here) or a colon before its port (rejected from Go 1.26 on).
LaterReleasesReject(rawURL) ==
  LET parts == URLParts(CutBefore(rawURL, "#"))
      host  == SubSeq(parts.authority, LastIndex(parts.authority, "@") + 1,
                      Len(parts.authority))
      colon == LastIndex(host, ":") IN
  /\ parts.hasAuthority
  /\ HasPrefix(parts.rest, <<"/">>)
  /\ \/ FirstIndex(host, "[") > 0
     \/ colon > 0 /\ FirstIndex(SubSeq(host, 1, colon - 1), ":") > 0

\* The ways FileStorage.Save fails: os.MkdirAll; os.WriteFile when it cannot
\* open the file ("open"); os.WriteFile after it opened and truncated the file
\* ("write").
SaveFailures == {"mkdir", "open", "write"}

(* --------------------------- archive endpoint -------------------------- *)

Digits == <<"0", "1", "2", "3", "4", "5", "6", "7", "8", "9">>

\* The start date of the record at offset k - 1: most recent first.
StartdateOf(k) ==
  <<"2", "0", "2", "4", "0", "1", Digits[((30 - k) \div 10) + 1], Digits[((30 - k) % 10) + 1]>>

\* Titles and copyrights of the archive, by offset: a title with a space, an
\* empty title with a copyright, a title with forbidden characters.
TitleOf(k) ==
  CASE k % 3 = 1 -> <<"A", " ", "B">>
    [] k % 3 = 2 -> <<>>
    [] OTHER     -> <<" ", "G", ":", "\"", "H", "?", " ">>

CopyrightOf(k) ==
  CASE k % 3 = 2 -> <<"C", "/", "d", FWComma, "E", " ", "(", "F", ")">>
    [] OTHER     -> <<"x", " ", "(", "y", ")">>

\* One ImageData record (client.go ImageData), the fields the library reads.
ArchiveRecord(k) ==
  [Startdate |-> StartdateOf(k),
   Title     |-> TitleOf(k),
   Copyright |-> CopyrightOf(k),
   URL       |-> <<"/", "i">> \o StartdateOf(k)]

\* A record whose URL http.NewRequest rejects.
UnparsableRecord == [ArchiveRecord(1) EXCEPT !.URL = <<"/", "i", "\n">>]

\* A record whose URL, appended to the host, gives it two colons:
\* http.NewRequest accepts "https://www.bing.com:8:1" up to Go 1.25 and rejects
\* it from Go 1.26 on.
TwoColonRecord == [ArchiveRecord(1) EXCEPT !.URL = <<":", "8", ":", "1">>]

\* The zero ImageData.
NoImageData == [Startdate |-> <<>>, Title |-> <<>>, Copyright |-> <<>>, URL |-> <<>>]

\* The records the endpoint sends for idx with len images: the archive from
\* offset idx on (a negative idx reads from the most recent record).
Window(idx, len) ==
  LET first == (IF idx < 0 THEN 0 ELSE idx) + 1
      last  == IF first + len - 1 > MaxRecords THEN MaxRecords ELSE first + len - 1
  IN [k \in 1..(IF last >= first THEN last - first + 1 ELSE 0) |-> ArchiveRecord(first + k - 1)]

\* What a write that failed after the file was opened leaves of the data: a
\* proper part of it, possibly nothing, not decodable.
PartlyWritten(data) == [decodable |-> FALSE, images |-> <<>>]

\* A response body of the archive endpoint: undecodable bytes, or a JSON
\* document with an image list.
GarbageBody == [decodable |-> FALSE, images |-> <<>>]
JsonBody(images) == [decodable |-> TRUE, images |-> images]

\* The bodies the endpoint may answer a request for (idx, n) with: it need not
\* honour n.
Bodies(idx, n) == {GarbageBody} \cup {JsonBody(Window(idx, len)) : len \in 0..MaxRecords}

\* The body of an image response.
ImageBody(url) == [decodable |-> FALSE, images |-> <<url>>]

(* ------------------------------- client -------------------------------- *)

\* Mutant: the two arguments are put in each other's place in the query.
GetBingApiURLSwapped(daysAgo, cnt) == [idx |-> cnt, n |-> daysAgo]

\* Client.GetBingApiURL(daysAgo, count): the query's idx and n parameters.
GetBingApiURL(daysAgo, cnt) == [idx |-> daysAgo, n |-> cnt]

\* NewClient's baseURL (client.go:63).
DefaultBaseURL ==
  <<    "h", "t", "t", "p", "s", ":", "/", "/", "w", "w", "w", ".", "b", "i", "n", "g",
    ".", "c", "o", "m", "/", "H", "P", "I", "m", "a", "g", "e", "A", "r", "c", "h",
    "i", "v", "e", ".", "a", "s", "p", "x">>

RECURSIVE Itoa(_)
\* fmt's %d
Itoa(n) ==
  IF n < 0 THEN <<"-">> \o Itoa(0 - n)
  ELSE IF n < 10 THEN <<Digits[n + 1]>>
  ELSE Itoa(n \div 10) \o <<Digits[(n % 10) + 1]>>

\* Client.GetBingApiURL(daysAgo, count) as text, for a client with NewClient's
\* baseURL and the given locale:
\* fmt.Sprintf("%s?format=js&n=%d&idx=%d&mkt=%s", baseURL, count, daysAgo, locale).
ApiURLText(daysAgo, cnt, locale) ==
  DefaultBaseURL \o <<"?", "f", "o", "r", "m", "a", "t", "=", "j", "s", "&", "n", "=">> \o Itoa(cnt)
    \o <<"&", "i", "d", "x", "=">> \o Itoa(daysAgo) \o <<"&", "m", "k", "t", "=">> \o locale

\* "https://www.bing.com", the prefix of every image URL (client.go:167).
BingHost ==
  <<"h", "t", "t", "p", "s", ":", "/", "/", "w", "w", "w", ".", "b", "i", "n", "g", ".",
    "c", "o", "m">>

\* "1920x1080" and "UHD" (client.go:172).
ResolutionToken == <<"1", "9", "2", "0", "x", "1", "0", "8", "0">>
UHDToken == <<"U", "H", "D">>

\* NewClient's highQuality (client.go:68), which no caller of the library changes.
DefaultHighQuality == TRUE

\* Client.GetBingImageURL for a client whose highQuality is hq.
GetBingImageURL(imageData, hq) ==
  LET imageURL == BingHost \o imageData.URL IN
  IF hq THEN ReplaceFirst(imageURL, ResolutionToken, UHDToken) ELSE imageURL

\* Mutant: the check for an empty image list is lost.
parseImageResponseNoEmptyCheck(body) ==
  IF ~body.decodable THEN [err |-> <<"parse">>, images |-> <<>>]
  ELSE [err |-> NoErr, images |-> body.images]

\* Mutant: only the first image of the body is returned.
parseImageResponseFirstOnly(body) ==
  IF ~body.decodable THEN [err |-> <<"parse">>, images |-> <<>>]
  ELSE IF Len(body.images) = 0 THEN [err |-> <<"empty">>, images |-> <<>>]
       ELSE [err |-> NoErr, images |-> <<body.images[1]>>]

\* Client.parseImageResponse: the error and the images of a body.
parseImageResponse(body) ==
  IF ~body.decodable THEN [err |-> <<"parse">>, images |-> <<>>]
  ELSE IF Len(body.images) = 0 THEN [err |-> <<"empty">>, images |-> <<>>]
       ELSE [err |-> NoErr, images |-> body.images]

\* Mutant: the lower end of the range check is off by one, 0 passes.
ValidDaysFromZero(d) == ~(d < 0 \/ d > MaxBatchDays)

\* The range check of FetchMultipleImageData and DownloadLatestWallpapers.
ValidDays(d) == ~(d <= 0 \/ d > MaxBatchDays)

(* ------------------------------- state --------------------------------- *)

\* BingImageStorage.OutputDir as NewBingImageStorage set it (part_003:176-183).
\* Nothing in the repository calls SetOutputDir, SetStorage or
\* SetFilenameGenerator after construction except main, which installs its
\* CustomFilenameGenerator (cli.CustomFilename); the directory and the
\* FileStorage stay the constructor's.
OutputDir == <<"/", "o">>

VARIABLES
  pc,               \* position of the running operation
  op,               \* the public operation called
  days,             \* its days / daysAgo argument
  continueOnError,  \* its continueOnError argument
  SaveJsonData,     \* Downloader.SaveJsonData
  imageDataList,    \* the metadata list of the batch
  i,                \* loop index of the batch
  daysAgo,          \* daysAgo of the running per-day pipeline / metadata request
  count,            \* count of the running metadata request
  imageData,        \* the record of the running per-day pipeline
  result,           \* its *DownloadResult: <<>> is nil, <<r>> a result
  dayErr,           \* the error the per-day pipeline returned
  bytes,            \* the body fetched last
  results,          \* the batch's results slice
  lastError,        \* the batch's lastError
  ret,              \* what the operation returned
  log,              \* every request, write and pacing delay so far
  files,            \* the file system: path -> content
  pair,             \* the two-path comparison: run, fixed outcomes, first return
  named,            \* the naming functions' inputs and what they returned
  cli,              \* the command line: flags, installed generator, exit, output
  archive           \* by how many days the archive advanced since the start

vars == <<pc, op, days, continueOnError, SaveJsonData, imageDataList, i, daysAgo,
          count, imageData, result, dayErr, bytes, results, lastError, ret, log, files,
          pair, named, cli, archive>>

\* Whether the operation is inside the for loop of SaveWallpapers or
\* FetchAndSaveWallpapers (DownloadLatestWallpapers fetches its metadata before).
InBatchLoop ==
  \/ op \in {"SaveWallpapers", "FetchAndSaveWallpapers"}
  \/ op = "DownloadLatestWallpapers" /\ pc # "meta"

\* One entry of the log: a call of Client.sendRequest, a call of
\* FileStorage.Save or a pacing delay. day is the batch index it belongs to
\* (-1 outside a batch), ok whether the request or write succeeded, sent
\* whether a request went out (it is TRUE of writes and delays).
Event(kind, idx, n, target, ok) ==
  [kind |-> kind, idx |-> idx, n |-> n, target |-> target, ok |-> ok,
   day |-> IF InBatchLoop THEN i ELSE -1, sent |-> TRUE]

\* The entry of a call of sendRequest that ended in the given way: nothing was
\* sent when http.NewRequest failed (client.go:132-136).
SendEvent(e, sendErr) ==
  [e EXCEPT !.sent = (sendErr # <<"newRequest">>)]

\* The file system after FileStorage.Save of data at path ended in the given
\* way (part_003:42-60): the file holds the data, or is left partly written
\* when os.WriteFile failed after opening it, or nothing changed.
FilesAfterSave(fs, path, data, out) ==
  CASE out = "ok"    -> (path :> data) @@ fs
    [] out = "write" -> (path :> PartlyWritten(data)) @@ fs
    [] OTHER         -> fs

\* The zero DownloadResult carrying a copy of the record (downloader.go:61-62).
NewResult(rec) ==
  [ImageData |-> rec, ImagePath |-> <<>>, JsonPath |-> <<>>,
   DownloadErr |-> NoErr, JsonErr |-> NoErr]

NoReturn == [returned |-> FALSE, isNil |-> TRUE, list |-> <<>>, err |-> NoErr]
Return(isNil, list, err) == [returned |-> TRUE, isNil |-> isNil, list |-> list, err |-> err]

\* No comparison of the two batch paths is running: every request and write
\* may end in any way.
NoPair == [run |-> 0, batchMeta |-> "ok", oracle |-> <<>>, first |-> NoReturn]

\* No naming function was called.
NoNamed == [called |-> "none"]

\* NewClient's locale "zh-CN" (client.go:67), and a locale WithLocale can set
\* that makes an archive URL http.NewRequest rejects.
DefaultLocale == <<"z", "h", "-", "C", "N">>
Locales == {DefaultLocale, <<"z", "h", "\n">>}

\* The Downloader is used as a library, not through the command line: the
\* storage has its default generator (part_003:176-183).
NoCli ==
  [phase |-> "library", entry |-> "none", days |-> 0, lastOnly |-> FALSE, saveJson |-> FALSE,
   customName |-> <<>>, overwrite |-> FALSE, CustomFilename |-> <<>>,
   exit |-> -1, printed |-> <<>>, locale |-> DefaultLocale]

\* What the archive holds at offsets idx .. idx + len - 1 now: every day it
\* advances, a new record takes offset 0 and each record moves one offset up.
ArchiveWindow(idx, len) ==
  LET first == (IF idx < 0 THEN 0 ELSE idx) + 1 IN
  [k \in DOMAIN Window(idx, len) |-> ArchiveRecord(first + k - 1 - archive)]

\* CustomFilenameGenerator.GenerateImageFilename (part_000:27-39) when a custom
\* name is installed, the default generator's otherwise.
ImageFilename(custom, rec, basePath) ==
  IF custom # <<>> THEN Join(basePath, WithJpgExtension(custom))
  ELSE GenerateImageFilename(rec, basePath)

\* g.CustomFilename after GenerateImageFilename ran (part_000:31-33).
CustomFilenameAfter(custom) ==
  IF custom # <<>> THEN WithJpgExtension(custom) ELSE custom

\* The requests sent and the writes of the run that have failed so far.
Faults == Cardinality({p \in DOMAIN log : ~log[p].ok /\ log[p].sent})

\* Whether http.NewRequest accepts the archive URL Client.GetBingApiURL makes
\* for the client's locale.
ApiURLParses(d, cnt) == URLParses(ApiURLText(d, cnt, cli.locale))

\* Whether the outcomes are free. In a comparison of the two batch paths they
\* are fixed: pair.oracle[d + 1] names the stage day d fails at ("none" when it
\* fails nowhere) and pair.batchMeta the outcome of the batch metadata request.
FreeOutcomes == pair.run = 0

\* Whether the fixed outcomes make the running day fail at stage.
FailsAt(stage) ==
  IF stage = "batchMetadata" THEN pair.batchMeta # "ok"
  ELSE LET d == IF InBatchLoop THEN i ELSE 0 IN
       d + 1 \in DOMAIN pair.oracle /\ pair.oracle[d + 1] = stage

\* The outcomes a request or write of the given stage can have, all being the
\* outcomes it has when they are free and failure the one it fails with when
\* they are fixed.
Outcomes(stage, all, failure) ==
  IF FreeOutcomes THEN (IF Faults < MaxFaults THEN all ELSE {"ok"})
  ELSE IF FailsAt(stage) THEN {failure} ELSE {"ok"}

\* The outcomes of a call of sendRequest for a URL: http.NewRequest fails on a
\* URL that does not parse, and nothing is sent; else the request is sent. On
\* a URL whose parsing depends on the Go release either happens.
SendOutcomes(stage, url) ==
  IF URLParses(url)
  THEN Outcomes(stage, {"ok"} \cup SentFailures, "transport")
         \cup (IF LaterReleasesReject(url) THEN {"newRequest"} ELSE {})
  ELSE {"newRequest"}

\* NewClient, NewBingImageStorage and NewDownloader have run: SaveJsonData is
\* true (downloader.go:23), nothing was requested or written.
Init ==
  /\ pc = "idle"
  /\ op = "none"
  /\ days = 0
  /\ continueOnError = FALSE
  /\ SaveJsonData = TRUE
  /\ imageDataList = <<>>
  /\ i = 0
  /\ daysAgo = 0
  /\ count = 0
  /\ imageData = NoImageData
  /\ result = <<>>
  /\ dayErr = NoErr
  /\ bytes = GarbageBody
  /\ results = <<>>
  /\ lastError = NoErr
  /\ ret = NoReturn
  /\ log = <<>>
  /\ files = <<>>
  /\ pair = NoPair
  /\ named = NoNamed
  /\ cli = NoCli
  /\ archive = 0

(* ------------------------------ inputs --------------------------------- *)

\* The day counts the batch entry points are called with: out of range on
\* both sides, the small counts, and the two ends of the range check.
DaysInputs == (-1..MaxDays) \cup {MaxBatchDays, MaxBatchDays + 1}

\* The day counts the day-by-day loop is called with (it runs days iterations).
LoopDaysInputs == -1..MaxDays

\* The offsets the single-day entry points are called with.
DaysAgoInputs == -1..(MaxDays - 1)

\* The metadata lists SaveWallpapers is called with: the archive's first
\* records, and a list whose first record has a URL that does not parse.
ListInputs ==
  {Window(0, len) : len \in 0..MaxRecords} \cup {<<UnparsableRecord, ArchiveRecord(2)>>}

\* The records the single-record entry points are called with.
RecordInputs ==
  {ArchiveRecord(k) : k \in 1..MaxRecords} \cup {UnparsableRecord, TwoColonRecord}

(* ---------------------------- entry points ----------------------------- *)

\* main.go:154: the caller sets Downloader.SaveJsonData before calling.
SetSaveJsonData(b) ==
  /\ pc = "idle"
  /\ SaveJsonData # b
  /\ SaveJsonData' = b
  /\ UNCHANGED <<cli, archive, pair, named,
                 pc, op, days, continueOnError, imageDataList, i, daysAgo, count,
                 imageData, result, dayErr, bytes, results, lastError, ret, log, files>>

\* main.go:121, client.go:107-111: the client is made with WithLocale(l).
WithLocale(l) ==
  /\ pc = "idle"
  /\ cli.locale # l
  /\ cli' = [cli EXCEPT !.locale = l]
  /\ UNCHANGED <<archive, pair, named,
                 pc, op, days, continueOnError, SaveJsonData, imageDataList, i, daysAgo,
                 count, imageData, result, dayErr, bytes, results, lastError, ret, log,
                 files>>

\* Client.FetchMultipleImageData(d): the range check, then the request for (0, d).
CallFetchMultipleImageData(d) ==
  /\ pc = "idle"
  /\ op' = "FetchMultipleImageData"
  /\ days' = d
  /\ IF ~ValidDays(d)
     THEN /\ pc' = "done"
          /\ ret' = Return(TRUE, <<>>, <<"validation">>)
          /\ UNCHANGED <<daysAgo, count>>
     ELSE /\ pc' = "meta"
          /\ daysAgo' = 0
          /\ count' = d
          /\ UNCHANGED ret
  /\ UNCHANGED <<cli, archive, pair, named,
                 continueOnError, SaveJsonData, imageDataList, i, imageData, result,
                 dayErr, bytes, results, lastError, log, files>>

\* Downloader.DownloadLatestWallpapers(d, c): the range check, then
\* Client.FetchMultipleImageData(d), whose check passes too.
CallDownloadLatestWallpapers(d, c) ==
  /\ pc = "idle"
  /\ op' = "DownloadLatestWallpapers"
  /\ days' = d
  /\ continueOnError' = c
  /\ IF ~ValidDays(d)
     THEN /\ pc' = "done"
          /\ ret' = Return(TRUE, <<>>, <<"validation">>)
          /\ UNCHANGED <<daysAgo, count>>
     ELSE /\ pc' = "meta"
          /\ daysAgo' = 0
          /\ count' = d
          /\ UNCHANGED ret
  /\ UNCHANGED <<cli, archive, pair, named,
                 SaveJsonData, imageDataList, i, imageData, result, dayErr, bytes,
                 results, lastError, log, files>>

\* Downloader.SaveWallpapers(list, c): results and lastError are set up
\* (downloader.go:156-157) and the loop starts.
CallSaveWallpapers(list, c) ==
  /\ pc = "idle"
  /\ op' = "SaveWallpapers"
  /\ days' = Len(list)
  /\ continueOnError' = c
  /\ imageDataList' = list
  /\ results' = <<>>
  /\ lastError' = NoErr
  /\ i' = 0
  /\ pc' = "loop"
  /\ UNCHANGED <<cli, archive, pair, named,
                 SaveJsonData, daysAgo, count, imageData, result, dayErr, bytes,
                 ret, log, files>>

\* Mutant: the day-by-day loop starts at day 1 and never fetches today's image.
CallFetchAndSaveWallpapersFromOne(d, c) ==
  /\ pc = "idle"
  /\ op' = "FetchAndSaveWallpapers"
  /\ days' = d
  /\ continueOnError' = c
  /\ results' = <<>>
  /\ lastError' = NoErr
  /\ i' = 1
  /\ pc' = IF d < 0 THEN "panic" ELSE "loop"
  /\ UNCHANGED <<cli, archive, pair, named,
                 SaveJsonData, imageDataList, daysAgo, count, imageData,
                 result, dayErr, bytes, ret, log, files>>

\* Downloader.FetchAndSaveWallpapers(d, c): make([]*DownloadResult, 0, d)
\* panics for a negative d (downloader.go:113); otherwise the loop starts.
CallFetchAndSaveWallpapers(d, c) ==
  /\ pc = "idle"
  /\ op' = "FetchAndSaveWallpapers"
  /\ days' = d
  /\ continueOnError' = c
  /\ results' = <<>>
  /\ lastError' = NoErr
  /\ i' = 0
  /\ pc' = IF d < 0 THEN "panic" ELSE "loop"
  /\ UNCHANGED <<cli, archive, pair, named,
                 SaveJsonData, imageDataList, daysAgo, count, imageData, result,
                 dayErr, bytes, ret, log, files>>

\* Downloader.FetchAndSaveWallpaper(d): Client.FetchImageData(d) requests (d, 1).
CallFetchAndSaveWallpaper(d) ==
  /\ pc = "idle"
  /\ op' = "FetchAndSaveWallpaper"
  /\ days' = d
  /\ daysAgo' = d
  /\ count' = 1
  /\ pc' = "meta"
  /\ UNCHANGED <<cli, archive, pair, named,
                 continueOnError, SaveJsonData, imageDataList, i, imageData, result,
                 dayErr, bytes, results, lastError, ret, log, files>>

\* Downloader.SaveWallpaper(rec, d): the result is created with a copy of the
\* record (downloader.go:61-62).
CallSaveWallpaper(rec, d) ==
  /\ pc = "idle"
  /\ op' = "SaveWallpaper"
  /\ days' = d
  /\ daysAgo' = d
  /\ imageData' = rec
  /\ result' = <<NewResult(rec)>>
  /\ dayErr' = NoErr
  /\ pc' = "imgFetch"
  /\ UNCHANGED <<cli, archive, pair, named,
                 continueOnError, SaveJsonData, imageDataList, i, count, bytes,
                 results, lastError, ret, log, files>>

(* --------------------------- metadata fetch ---------------------------- *)

\* Client.fetchMultipleImageData: FetchRawJsonData's error, else
\* parseImageResponse of the body.
fetchMultipleImageData(sendErr, body) ==
  IF sendErr # NoErr THEN [err |-> sendErr, images |-> <<>>]
  ELSE parseImageResponse(body)

\* What the transport can answer a metadata request for (idx, n) with: a
\* failure of sendRequest after the request was made, or a body.
MetadataReplies(idx, n) ==
  {[sendErr |-> <<e>>, body |-> GarbageBody] : e \in SentFailures}
    \cup {[sendErr |-> NoErr, body |-> b] : b \in Bodies(idx, n)}

\* Whether a reply is a delivered, decodable body with at least one image.
ReplyOk(reply) ==
  reply.sendErr = NoErr /\ reply.body.decodable /\ reply.body.images # <<>>

\* The body that honours idx and n.
HonestReply(idx, n) == [sendErr |-> NoErr, body |-> JsonBody(ArchiveWindow(idx, n))]

\* The replies to the metadata request of the given stage: the failure of
\* http.NewRequest when the archive URL does not parse; else any reply when the
\* outcomes are free, and once MaxFaults requests or writes have failed a
\* reply with an image or the body that honours idx and n; when they are
\* fixed, a transport failure or the body that honours idx and n.
RepliesTo(stage, idx, n) ==
  IF ~ApiURLParses(idx, n) THEN {[sendErr |-> <<"newRequest">>, body |-> GarbageBody]}
  ELSE IF FreeOutcomes
  THEN IF Faults < MaxFaults THEN MetadataReplies(idx, n)
       ELSE {r \in MetadataReplies(idx, n) : ReplyOk(r)} \cup {HonestReply(idx, n)}
  ELSE IF FailsAt(stage) THEN {[sendErr |-> <<"transport">>, body |-> GarbageBody]}
       ELSE {HonestReply(idx, n)}

\* Client.FetchMultipleImageData after its range check: one request, and the
\* parsed images or the error are returned as they are.
FetchMultipleReturn ==
  /\ pc = "meta"
  /\ op = "FetchMultipleImageData"
  /\ \E reply \in RepliesTo("batchMetadata", daysAgo, count) :
       LET url == GetBingApiURL(daysAgo, count)
           r   == fetchMultipleImageData(reply.sendErr, reply.body)
       IN
       /\ log' = Append(log, SendEvent(Event("metadata", url.idx, url.n, <<>>,
                                              ReplyOk(reply)), reply.sendErr))
       /\ bytes' = IF reply.sendErr = NoErr THEN reply.body ELSE bytes
       /\ ret' = IF r.err # NoErr THEN Return(TRUE, <<>>, r.err)
                 ELSE Return(FALSE, r.images, NoErr)
  /\ pc' = "done"
  /\ UNCHANGED <<cli, archive, pair, named,
                 op, days, continueOnError, SaveJsonData, imageDataList, i, daysAgo,
                 count, imageData, result, dayErr, results, lastError, files>>

\* DownloadLatestWallpapers, downloader.go:209-216: the one batch metadata
\* request; on error (nil, err) is returned, else SaveWallpapers starts on the
\* images.
DownloadLatestMetadata ==
  /\ pc = "meta"
  /\ op = "DownloadLatestWallpapers"
  /\ \E reply \in RepliesTo("batchMetadata", daysAgo, count) :
       LET url == GetBingApiURL(daysAgo, count)
           r   == fetchMultipleImageData(reply.sendErr, reply.body)
       IN
       /\ log' = Append(log, SendEvent(Event("metadata", url.idx, url.n, <<>>,
                                              ReplyOk(reply)), reply.sendErr))
       /\ bytes' = IF reply.sendErr = NoErr THEN reply.body ELSE bytes
       /\ IF r.err # NoErr
          THEN /\ ret' = Return(TRUE, <<>>, r.err)
               /\ pc' = "done"
               /\ UNCHANGED <<imageDataList, results, lastError, i>>
          ELSE /\ imageDataList' = r.images
               /\ results' = <<>>
               /\ lastError' = NoErr
               /\ i' = 0
               /\ pc' = "loop"
               /\ UNCHANGED ret
  /\ UNCHANGED <<cli, archive, pair, named,
                 op, days, continueOnError, SaveJsonData, daysAgo, count, imageData,
                 result, dayErr, files>>

\* Client.FetchImageData after fetchMultipleImageData (client.go:211-220): its
\* error, else an error for an empty list, else the first image.
FirstImage(fetched) ==
  IF fetched.err # NoErr THEN fetched
  ELSE IF Len(fetched.images) = 0 THEN [err |-> <<"empty">>, images |-> <<>>]
       ELSE [err |-> NoErr, images |-> <<fetched.images[1]>>]

\* FetchAndSaveWallpaper, downloader.go:48-55: Client.FetchImageData(daysAgo);
\* on error (nil, wrapped error), else SaveWallpaper on the first image.
FetchImageData ==
  /\ pc = "meta"
  /\ op \in {"FetchAndSaveWallpaper", "FetchAndSaveWallpapers"}
  /\ \E reply \in RepliesTo("metadata", daysAgo, 1) :
       LET url == GetBingApiURL(daysAgo, 1)
           r   == FirstImage(fetchMultipleImageData(reply.sendErr, reply.body))
       IN
       /\ log' = Append(log, SendEvent(Event("metadata", url.idx, url.n, <<>>,
                                              ReplyOk(reply)), reply.sendErr))
       /\ bytes' = IF reply.sendErr = NoErr THEN reply.body ELSE bytes
       /\ IF r.err # NoErr
          THEN /\ result' = <<>>
               /\ dayErr' = Wrap("metadata fetch failed", r.err)
               /\ pc' = "dayReturn"
               /\ UNCHANGED imageData
          ELSE /\ imageData' = r.images[1]
               /\ result' = <<NewResult(r.images[1])>>
               /\ dayErr' = NoErr
               /\ pc' = "imgFetch"
  /\ UNCHANGED <<cli, archive, pair, named,
                 op, days, continueOnError, SaveJsonData, imageDataList, i, daysAgo,
                 count, results, lastError, ret, files>>

(* --------------------------- per-day pipeline -------------------------- *)

\* Mutant: the error is not stored in the result.
WithDownloadErrLost(res, err) == res

\* The result with its DownloadErr set (downloader.go:68, 76).
WithDownloadErr(res, err) == [res EXCEPT !.DownloadErr = err]

\* Mutant: a JSON failure is stored as the download error.
WithJsonErrAsDownloadErr(res, err) == [res EXCEPT !.DownloadErr = err]

\* The result with its JsonErr set (downloader.go:89, 95).
WithJsonErr(res, err) == [res EXCEPT !.JsonErr = err]

\* Mutant: a JSON failure is returned as the pipeline's error.
ErrAfterJsonFailureReturned(err) == Wrap("json failed", err)

\* The error SaveWallpaper returns when the JSON fetch or the JSON save failed
\* with err: none, the image was saved (downloader.go:91, 107).
ErrAfterJsonFailure(err) == NoErr

\* Mutant: the JSON step is taken whatever SaveJsonData is.
AfterImageSavedAlways(saveJson) == "jsonFetch"

\* Where SaveWallpaper goes after the image is saved (downloader.go:85).
AfterImageSaved(saveJson) == IF saveJson THEN "jsonFetch" ELSE "dayReturn"

\* SaveWallpaper, downloader.go:66-72: the image request; a failure is put in
\* the result and returned with it.
FetchRawImageData ==
  /\ pc = "imgFetch"
  /\ LET imageURL == GetBingImageURL(imageData, DefaultHighQuality) IN
     \E out \in SendOutcomes("image", imageURL) :
       /\ log' = Append(log, SendEvent(Event("image", -1, -1, imageURL, out = "ok"),
                                      <<out>>))
       /\ IF out = "ok"
          THEN /\ bytes' = ImageBody(imageURL)
               /\ pc' = "imgSave"
               /\ UNCHANGED <<result, dayErr>>
          ELSE /\ result' = <<WithDownloadErr(result[1], <<out>>)>>
               /\ dayErr' = Wrap("image download failed", <<out>>)
               /\ pc' = "dayReturn"
               /\ UNCHANGED bytes
  /\ UNCHANGED <<cli, archive, pair, named,
                 op, days, continueOnError, SaveJsonData, imageDataList, i, daysAgo,
                 count, imageData, results, lastError, ret, files>>

\* SaveWallpaper, downloader.go:74-82 with BingImageStorage.SaveImage: the
\* image is written under the name the installed generator makes; a failure
\* is put in the result
\* and returned with it, a success sets ImagePath.
SaveImage ==
  /\ pc = "imgSave"
  /\ LET filePath == ImageFilename(cli.CustomFilename, imageData, OutputDir) IN
     \E out \in Outcomes("saveImage", {"ok"} \cup SaveFailures, "write") :
       /\ log' = Append(log, Event("saveImage", -1, -1, filePath, out = "ok"))
       /\ files' = FilesAfterSave(files, filePath, bytes, out)
       /\ IF out = "ok"
          THEN /\ result' = <<[result[1] EXCEPT !.ImagePath = filePath]>>
               /\ dayErr' = NoErr
               /\ pc' = AfterImageSaved(SaveJsonData)
          ELSE /\ result' = <<WithDownloadErr(result[1], <<out>>)>>
               /\ dayErr' = Wrap("image save failed", <<out>>)
               /\ pc' = "dayReturn"
  /\ cli' = [cli EXCEPT !.CustomFilename = CustomFilenameAfter(@)]
  /\ UNCHANGED <<archive, pair, named,
                 op, days, continueOnError, SaveJsonData, imageDataList, i, daysAgo,
                 count, imageData, bytes, results, lastError, ret>>

\* BingImageStorage.SaveImageFromReader(reader, rec) with FileStorage.SaveReader,
\* called on its own with a reader of the record's image: the file named by
\* the installed generator is created or truncated and the reader copied into
\* it; the path and nil are returned, or "" and the error of MkdirAll, of
\* OpenFile (the file is as it was) or of io.Copy (the file is left partly
\* written).
CallSaveImageFromReader(rec) ==
  /\ pc = "idle"
  /\ LET filePath == ImageFilename(cli.CustomFilename, rec, OutputDir)
         data == ImageBody(GetBingImageURL(rec, DefaultHighQuality)) IN
     \E out \in Outcomes("saveImage", {"ok"} \cup SaveFailures, "write") :
       /\ log' = Append(log, Event("saveReader", -1, -1, filePath, out = "ok"))
       /\ files' = FilesAfterSave(files, filePath, data, out)
       /\ ret' = IF out = "ok" THEN Return(FALSE, <<filePath>>, NoErr)
                 ELSE Return(TRUE, <<>>, <<out>>)
  /\ cli' = [cli EXCEPT !.CustomFilename = CustomFilenameAfter(@)]
  /\ op' = "SaveImageFromReader"
  /\ pc' = "done"
  /\ UNCHANGED <<archive, pair, named,
                 days, continueOnError, SaveJsonData, imageDataList, i, daysAgo,
                 count, imageData, result, dayErr, bytes, results, lastError>>

\* SaveWallpaper, downloader.go:87-91: the archive is requested again for
\* (daysAgo, 1); a failure sets JsonErr and the pipeline returns no error.
FetchRawJsonData ==
  /\ pc = "jsonFetch"
  /\ LET url == GetBingApiURL(daysAgo, 1) IN
     \E out \in SendOutcomes("json", ApiURLText(url.idx, url.n, cli.locale)) :
       /\ log' = Append(log, SendEvent(Event("json", url.idx, url.n, <<>>, out = "ok"),
                                      <<out>>))
       /\ IF out = "ok"
          THEN /\ bytes' = JsonBody(ArchiveWindow(url.idx, url.n))
               /\ pc' = "jsonSave"
               /\ UNCHANGED <<result, dayErr>>
          ELSE /\ result' = <<WithJsonErr(result[1], <<out>>)>>
               /\ dayErr' = ErrAfterJsonFailure(<<out>>)
               /\ pc' = "dayReturn"
               /\ UNCHANGED bytes
  /\ UNCHANGED <<cli, archive, pair, named,
                 op, days, continueOnError, SaveJsonData, imageDataList, i, daysAgo,
                 count, imageData, results, lastError, ret, files>>

\* SaveWallpaper, downloader.go:93-100 with BingImageStorage.SaveJson: the
\* body is written under the JSON name; a failure sets JsonErr, a success
\* JsonPath, and the pipeline returns no error.
SaveJson ==
  /\ pc = "jsonSave"
  /\ LET filePath == GenerateJsonFilename(imageData, OutputDir) IN
     \E out \in Outcomes("saveJson", {"ok"} \cup SaveFailures, "write") :
       /\ log' = Append(log, Event("saveJson", -1, -1, filePath, out = "ok"))
       /\ files' = FilesAfterSave(files, filePath, bytes, out)
       /\ IF out = "ok"
          THEN /\ result' = <<[result[1] EXCEPT !.JsonPath = filePath]>>
               /\ UNCHANGED dayErr
          ELSE /\ result' = <<WithJsonErr(result[1], <<out>>)>>
               /\ dayErr' = ErrAfterJsonFailure(<<out>>)
  /\ pc' = "dayReturn"
  /\ UNCHANGED <<cli, archive, pair, named,
                 op, days, continueOnError, SaveJsonData, imageDataList, i, daysAgo,
                 count, imageData, bytes, results, lastError, ret>>

\* FetchAndSaveWallpaper / SaveWallpaper called on their own return the
\* pipeline's result and error.
ReturnSingle ==
  /\ pc = "dayReturn"
  /\ op \in {"FetchAndSaveWallpaper", "SaveWallpaper"}
  /\ ret' = Return(result = <<>>, result, dayErr)
  /\ pc' = "done"
  /\ UNCHANGED <<cli, archive, pair, named,
                 op, days, continueOnError, SaveJsonData, imageDataList, i, daysAgo,
                 count, imageData, result, dayErr, bytes, results, lastError, log, files>>

(* ------------------------------ batch loop ----------------------------- *)

\* The number of iterations of the running loop: len(imageDataList) in
\* SaveWallpapers, days in FetchAndSaveWallpapers.
BatchLen == IF op = "FetchAndSaveWallpapers" THEN days ELSE Len(imageDataList)

\* Mutant: the continueOnError check is lost, no error ends the batch.
StopsBatchNever(err, coe) == FALSE

\* downloader.go:124, 170: a per-day error ends the batch unless continueOnError.
StopsBatch(err, coe) == err # NoErr /\ ~coe

\* Mutant: the failed day's own result is appended before the batch stops.
StoppedResultsWithPartial(rs, res) == rs \o res

\* downloader.go:125, 171: the list returned when the batch stops at a failed
\* day whose pipeline returned res: the results so far.
StoppedResults(rs, res) == rs

\* Mutant: only successful results are appended.
AppendResultOnSuccess(rs, res, err) == IF err # NoErr THEN rs ELSE rs \o res

\* downloader.go:120-133, 166-179 when the batch goes on: a result is appended
\* on success, and on error when it is not nil.
AppendResult(rs, res, err) ==
  IF err # NoErr
  THEN (IF res # <<>> THEN rs \o res ELSE rs)
  ELSE rs \o res

\* Mutant: the bound is off by one and the delay is taken after the last item too.
NeedsPauseAfterLast(idx, n) == idx < n

\* downloader.go:136, 182: the pacing delay is taken unless this was the last item.
NeedsPause(idx, n) == idx < n - 1

\* Mutant: the continueOnError test of the summary is inverted.
SummaryErrorInverted(lastErr, coe) ==
  IF lastErr # NoErr /\ ~coe THEN Wrap("some wallpapers failed", lastErr) ELSE NoErr

\* downloader.go:145-149, 191-195: the error the loop returns when it ran through.
SummaryError(lastErr, coe) ==
  IF lastErr # NoErr /\ coe THEN Wrap("some wallpapers failed", lastErr) ELSE NoErr

\* The head of the for loop: the next item's pipeline starts (SaveWallpaper on
\* record i with daysAgo = i, or FetchAndSaveWallpaper(i)), or the loop is over
\* and the results are returned with the summary error.
LoopHead ==
  /\ pc = "loop"
  /\ IF i < BatchLen
     THEN /\ daysAgo' = i
          /\ dayErr' = NoErr
          /\ IF op = "FetchAndSaveWallpapers"
             THEN /\ count' = 1
                  /\ pc' = "meta"
                  /\ UNCHANGED <<imageData, result>>
             ELSE /\ imageData' = imageDataList[i + 1]
                  /\ result' = <<NewResult(imageDataList[i + 1])>>
                  /\ pc' = "imgFetch"
                  /\ UNCHANGED count
          /\ UNCHANGED ret
     ELSE /\ ret' = Return(FALSE, results, SummaryError(lastError, continueOnError))
          /\ pc' = "done"
          /\ UNCHANGED <<daysAgo, dayErr, count, imageData, result>>
  /\ UNCHANGED <<cli, archive, pair, named,
                 op, days, continueOnError, SaveJsonData, imageDataList, i, bytes,
                 results, lastError, log, files>>

\* Mutant: a failed day is tried again when the batch continues on errors.
AfterDayRetriesFailedDay ==
  /\ pc = "dayReturn"
  /\ op \in {"SaveWallpapers", "DownloadLatestWallpapers", "FetchAndSaveWallpapers"}
  /\ lastError' = IF dayErr # NoErr THEN Wrap("wallpaper failed", dayErr) ELSE lastError
  /\ IF StopsBatch(dayErr, continueOnError)
     THEN /\ ret' = Return(FALSE, StoppedResults(results, result), lastError')
          /\ pc' = "done"
          /\ UNCHANGED <<results, i>>
     ELSE /\ results' = AppendResult(results, result, dayErr)
          /\ IF dayErr # NoErr
             THEN pc' = "loop" /\ UNCHANGED i
             ELSE IF NeedsPause(i, BatchLen)
                  THEN pc' = "sleep" /\ UNCHANGED i
                  ELSE pc' = "loop" /\ i' = i + 1
          /\ UNCHANGED ret
  /\ UNCHANGED <<cli, archive, pair, named,
                 op, days, continueOnError, SaveJsonData, imageDataList,
                 daysAgo, count, imageData, result, dayErr, bytes, log, files>>

\* The loop body after the per-day pipeline returned (downloader.go:120-139,
\* 166-185): lastError is set on error and the batch returns at once when it
\* must stop; otherwise the result is appended and the loop pauses or goes on.
AfterDay ==
  /\ pc = "dayReturn"
  /\ op \in {"SaveWallpapers", "DownloadLatestWallpapers", "FetchAndSaveWallpapers"}
  /\ lastError' = IF dayErr # NoErr THEN Wrap("wallpaper failed", dayErr) ELSE lastError
  /\ IF StopsBatch(dayErr, continueOnError)
     THEN /\ ret' = Return(FALSE, StoppedResults(results, result), lastError')
          /\ pc' = "done"
          /\ UNCHANGED <<results, i>>
     ELSE /\ results' = AppendResult(results, result, dayErr)
          /\ IF NeedsPause(i, BatchLen)
             THEN pc' = "sleep" /\ UNCHANGED i
             ELSE pc' = "loop" /\ i' = i + 1
          /\ UNCHANGED ret
  /\ UNCHANGED <<cli, archive, pair, named,
                 op, days, continueOnError, SaveJsonData, imageDataList, daysAgo,
                 count, imageData, result, dayErr, bytes, log, files>>

\* time.Sleep(1 * time.Second), then the next iteration.
Sleep ==
  /\ pc = "sleep"
  /\ log' = Append(log, Event("sleep", -1, -1, <<>>, TRUE))
  /\ i' = i + 1
  /\ pc' = "loop"
  /\ UNCHANGED <<cli, archive, pair, named,
                 op, days, continueOnError, SaveJsonData, imageDataList, daysAgo,
                 count, imageData, result, dayErr, bytes, results, lastError, ret, files>>

(* ---------------------------- specification ---------------------------- *)

Next ==
  \/ \E b \in BOOLEAN : SetSaveJsonData(b)
  \/ \E l \in Locales : WithLocale(l)
  \/ \E d \in DaysInputs : CallFetchMultipleImageData(d)
  \/ \E d \in DaysInputs, c \in BOOLEAN : CallDownloadLatestWallpapers(d, c)
  \/ \E list \in ListInputs, c \in BOOLEAN : CallSaveWallpapers(list, c)
  \/ \E d \in LoopDaysInputs, c \in BOOLEAN : CallFetchAndSaveWallpapers(d, c)
  \/ \E d \in DaysAgoInputs : CallFetchAndSaveWallpaper(d)
  \/ \E rec \in RecordInputs, d \in DaysAgoInputs : CallSaveWallpaper(rec, d)
  \/ \E rec \in RecordInputs : CallSaveImageFromReader(rec)
  \/ FetchMultipleReturn
  \/ DownloadLatestMetadata
  \/ FetchImageData
  \/ FetchRawImageData
  \/ SaveImage
  \/ FetchRawJsonData
  \/ SaveJson
  \/ ReturnSingle
  \/ LoopHead
  \/ AfterDay
  \/ Sleep

Spec == Init /\ [][Next]_vars

(* ------------------- the two batch paths, side by side ------------------ *)

\* The stage a day fails at when the outcomes are fixed.
FailStages == {"none", "metadata", "image", "saveImage", "json", "saveJson"}

\* The day counts both paths are called with.
PairDaysInputs == -1..MaxDays

\* A fresh Downloader, the arguments both paths will be called with, and the
\* outcome of every request and write fixed beforehand.
InitPair ==
  /\ pc = "idle"
  /\ op = "none"
  /\ days \in PairDaysInputs
  /\ continueOnError \in BOOLEAN
  /\ SaveJsonData \in BOOLEAN
  /\ imageDataList = <<>>
  /\ i = 0
  /\ daysAgo = 0
  /\ count = 0
  /\ imageData = NoImageData
  /\ result = <<>>
  /\ dayErr = NoErr
  /\ bytes = GarbageBody
  /\ results = <<>>
  /\ lastError = NoErr
  /\ ret = NoReturn
  /\ log = <<>>
  /\ files = <<>>
  /\ pair \in {[run |-> 1, batchMeta |-> b, oracle |-> o, first |-> NoReturn] :
                b \in {"ok", "fail"}, o \in [1..days -> FailStages]}
  /\ named = NoNamed
  /\ cli = NoCli
  /\ archive = 0

\* The first path: DownloadLatestWallpapers(days, continueOnError).
CallFirstPath ==
  /\ pair.run = 1
  /\ CallDownloadLatestWallpapers(days, continueOnError)

\* The first path returned: its return value is kept and a fresh Downloader
\* with the same settings on an empty directory is set up for the second.
StartSecondPath ==
  /\ pair.run = 1
  /\ pc = "done"
  /\ pair' = [pair EXCEPT !.run = 2, !.first = ret]
  /\ pc' = "idle"
  /\ op' = "none"
  /\ imageDataList' = <<>>
  /\ i' = 0
  /\ daysAgo' = 0
  /\ count' = 0
  /\ imageData' = NoImageData
  /\ result' = <<>>
  /\ dayErr' = NoErr
  /\ bytes' = GarbageBody
  /\ results' = <<>>
  /\ lastError' = NoErr
  /\ ret' = NoReturn
  /\ log' = <<>>
  /\ files' = <<>>
  /\ UNCHANGED <<days, continueOnError, SaveJsonData, named, cli, archive>>

\* The second path: FetchAndSaveWallpapers(days, continueOnError).
CallSecondPath ==
  /\ pair.run = 2
  /\ CallFetchAndSaveWallpapers(days, continueOnError)

NextPair ==
  \/ CallFirstPath
  \/ StartSecondPath
  \/ CallSecondPath
  \/ DownloadLatestMetadata
  \/ FetchImageData
  \/ FetchRawImageData
  \/ SaveImage
  \/ FetchRawJsonData
  \/ SaveJson
  \/ LoopHead
  \/ AfterDay
  \/ Sleep

SpecPair == InitPair /\ [][NextPair]_vars

(* ------------------------- the archive advances ------------------------- *)

\* The stages a day fails at in a batch during which the archive may advance.
ShiftStages == {"none", "image", "json"}

\* A fresh Downloader with JSON saving, the arguments of the batch, and the
\* outcome of every request fixed beforehand; the archive has not advanced.
InitShift ==
  /\ pc = "idle"
  /\ op = "none"
  /\ days \in 1..MaxDays
  /\ continueOnError \in BOOLEAN
  /\ SaveJsonData = TRUE
  /\ imageDataList = <<>>
  /\ i = 0
  /\ daysAgo = 0
  /\ count = 0
  /\ imageData = NoImageData
  /\ result = <<>>
  /\ dayErr = NoErr
  /\ bytes = GarbageBody
  /\ results = <<>>
  /\ lastError = NoErr
  /\ ret = NoReturn
  /\ log = <<>>
  /\ files = <<>>
  /\ pair \in {[run |-> 1, batchMeta |-> b, oracle |-> o, first |-> NoReturn] :
                b \in {"ok", "fail"}, o \in [1..days -> ShiftStages]}
  /\ named = NoNamed
  /\ cli = NoCli
  /\ archive = 0

\* A new most-recent record is published: every offset of the archive now
\* holds the record of one day later. It happens at most once in a run.
ArchiveAdvances ==
  /\ archive = 0
  /\ archive' = 1
  /\ UNCHANGED <<pc, op, days, continueOnError, SaveJsonData, imageDataList, i, daysAgo,
                 count, imageData, result, dayErr, bytes, results, lastError, ret, log,
                 files, pair, named, cli>>

NextShift ==
  \/ CallFirstPath
  \/ ArchiveAdvances
  \/ DownloadLatestMetadata
  \/ FetchRawImageData
  \/ SaveImage
  \/ FetchRawJsonData
  \/ SaveJson
  \/ LoopHead
  \/ AfterDay
  \/ Sleep

SpecShift == InitShift /\ [][NextShift]_vars

(* ----------------------------- command line ---------------------------- *)

\* The stages a day fails at in a run of the command line.
MainStages == {"none", "metadata", "image"}

\* The values of -name: none, a name without extension, a name that ends in
\* a separator.
MainNames == {<<>>, <<"w">>, <<"w", "/">>}

\* The values of -days: below the range, the small counts, above the range.
MainDaysInputs == (0..MaxDays) \cup {MaxBatchDays + 1}

\* The content of a file that is in the output directory before the run.
OldBody == ImageBody(<<"o", "l", "d">>)

\* main's check of -days (part_000:84, part_001:52).
MainValidDays(d) == ~(d < 1 \/ d > MaxBatchDays)

\* The path main's overwrite guard tests (part_000:138-141).
GuardPath(absOutputDir, customName) ==
  LET filePath == Join(absOutputDir, customName) IN
  IF Ext(filePath) = <<>> THEN filePath \o <<".", "j", "p", "g">> ELSE filePath

\* The flags after flag.Parse (part_000:57-68, part_001:33-41).
Flags(entry, d, last, json, name, over) ==
  [NoCli EXCEPT !.phase = "args", !.entry = entry, !.days = d, !.lastOnly = last,
                !.saveJson = json, !.customName = name, !.overwrite = over]

\* The command lines: of the program with -last, -name and -overwrite
\* (part_000) and of the one without them (part_001).
CommandLines ==
  {Flags("part_000", d, last, json, name, over) :
     d \in MainDaysInputs, last \in BOOLEAN, json \in BOOLEAN,
     name \in MainNames, over \in BOOLEAN}
  \cup {Flags("part_001", d, FALSE, json, <<>>, FALSE) :
           d \in MainDaysInputs, json \in BOOLEAN}

\* The output directory before the run: empty, or holding one file at a path
\* the fixed name leads to.
Directories(name) ==
  {<<>>} \cup
  (IF name = <<>> THEN {}
   ELSE {(path :> OldBody) :
           path \in {GuardPath(OutputDir, name),
                      ImageFilename(name, NoImageData, OutputDir)}})

\* The days the run can work on.
MainDays(flags) ==
  LET d == IF flags.lastOnly THEN 1 ELSE flags.days IN
  IF MainValidDays(d) THEN d ELSE 0

\* The process has started: flags parsed, nothing constructed yet, the output
\* directory as it was left, the outcome of every request fixed beforehand.
InitMain ==
  /\ pc = "idle"
  /\ op = "none"
  /\ days = 0
  /\ continueOnError = FALSE
  /\ SaveJsonData = TRUE
  /\ imageDataList = <<>>
  /\ i = 0
  /\ daysAgo = 0
  /\ count = 0
  /\ imageData = NoImageData
  /\ result = <<>>
  /\ dayErr = NoErr
  /\ bytes = GarbageBody
  /\ results = <<>>
  /\ lastError = NoErr
  /\ ret = NoReturn
  /\ log = <<>>
  /\ cli \in CommandLines
  /\ files \in Directories(cli.customName)
  /\ pair \in {[run |-> 1, batchMeta |-> b, oracle |-> o, first |-> NoReturn] :
                b \in {"ok", "fail"}, o \in [1..MainDays(cli) -> MainStages]}
  /\ named = NoNamed
  /\ archive = 0

\* main up to the construction of the Downloader (part_000:78-154,
\* part_001:51-98): -last forces days to 1, days outside the range end the
\* process with status 1; a fixed name installs the custom generator and,
\* without -overwrite, an existing file at the guard's path ends the process
\* with status 1; part_000 then sets SaveJsonData from -json.
MainStart ==
  /\ cli.phase = "args"
  /\ pc = "idle"
  /\ LET d       == IF cli.lastOnly THEN 1 ELSE cli.days
         custom  == cli.customName # <<>>
         blocked == /\ custom
                    /\ ~cli.overwrite
                    /\ GuardPath(OutputDir, cli.customName) \in DOMAIN files
     IN
     IF ~MainValidDays(d)
     THEN /\ cli' = [cli EXCEPT !.phase = "exited", !.exit = 1, !.days = d]
          /\ UNCHANGED SaveJsonData
     ELSE IF blocked
          THEN /\ cli' = [cli EXCEPT !.phase = "exited", !.exit = 1, !.days = d,
                                     !.CustomFilename = cli.customName]
               /\ UNCHANGED SaveJsonData
          ELSE /\ cli' = [cli EXCEPT !.phase = "ready", !.days = d,
                                     !.CustomFilename = cli.customName]
               /\ SaveJsonData' = IF cli.entry = "part_000" THEN cli.saveJson
                                  ELSE SaveJsonData
  /\ UNCHANGED <<pc, op, days, continueOnError, imageDataList, i, daysAgo, count,
                 imageData, result, dayErr, bytes, results, lastError, ret, log, files,
                 pair, named, archive>>

\* main calls the Downloader (part_000:160-170, part_001:101):
\* FetchAndSaveWallpaper(0) with -last, else DownloadLatestWallpapers(days, true).
MainCall ==
  /\ cli.phase = "ready"
  /\ IF cli.lastOnly THEN CallFetchAndSaveWallpaper(0)
     ELSE CallDownloadLatestWallpapers(cli.days, TRUE)

\* The counting loop of main (part_000:177-185, part_001:107-115).
Counts(list) ==
  [success |-> Cardinality({j \in 1..Len(list) : list[j].DownloadErr = NoErr}),
   failed  |-> Cardinality({j \in 1..Len(list) : list[j].DownloadErr # NoErr})]

\* main after the Downloader returned (part_000:162-187, part_001:102-117): an
\* error ends the process with status 1 before anything is counted;
\* otherwise the results are counted, the counts printed and main returns.
MainReport ==
  /\ cli.phase = "ready"
  /\ pc = "done"
  /\ IF ret.err # NoErr
     THEN cli' = [cli EXCEPT !.phase = "exited", !.exit = 1]
     ELSE cli' = [cli EXCEPT !.phase = "exited", !.exit = 0,
                             !.printed = <<Counts(ret.list)>>]
  /\ UNCHANGED <<pc, op, days, continueOnError, SaveJsonData, imageDataList, i, daysAgo,
                 count, imageData, result, dayErr, bytes, results, lastError, ret, log,
                 files, pair, named, archive>>

NextMain ==
  \/ MainStart
  \/ MainCall
  \/ MainReport
  \/ DownloadLatestMetadata
  \/ FetchImageData
  \/ FetchRawImageData
  \/ SaveImage
  \/ FetchRawJsonData
  \/ SaveJson
  \/ ReturnSingle
  \/ LoopHead
  \/ AfterDay
  \/ Sleep

SpecMain == InitMain /\ [][NextMain]_vars

(* --------------------------- naming functions --------------------------- *)

\* The characters of titles and copyrights: a letter, white space (the space,
\* three control characters and one rune outside ASCII), the characters the
\* generator replaces or removes, and the two separators of the copyright.
NameAlphabet ==
  {"a", " ", "\t", "\n", "\r", IdeographicSpace, "/", "\\", ":", "?", "*", "<", ">",
   "|", "\"", FWComma, "("}

\* One character of each kind the generator tells apart: a letter, the space,
\* other white space, a character replaced by "-", a removed character, the
\* double quote, and the two separators of the copyright.
CoreAlphabet == {"a", " ", "\t", "/", "?", "\"", FWComma, "("}

\* The characters of custom file names.
CustomAlphabet == {"a", ".", "/"}

\* The strings over an alphabet of length at most n.
Strings(alphabet, n) == UNION {[1..k -> alphabet] : k \in 0..n}

NameStartdate == <<"2", "0", "2", "4", "0", "1", "1", "5">>

\* A record with the title "Aurora Borealis" and its output directory "/out".
AuroraRecord ==
  [Startdate |-> NameStartdate,
   Title     |-> <<"A", "u", "r", "o", "r", "a", " ", "B", "o", "r", "e", "a", "l", "i", "s">>,
   Copyright |-> <<>>,
   URL       |-> <<>>]
AuroraDir == <<"/", "o", "u", "t">>

\* The titles and copyrights of the records, of length at most n: the longest
\* over one character of each kind, the shorter ones over every character.
NameStrings(n) == Strings(CoreAlphabet, n) \cup Strings(NameAlphabet, n - 1)

\* The copyrights a record with a title is given: the title is used then.
SampleCopyrights == {<<>>, <<"a", FWComma, "(">>}

\* The records the default generator is called with, their texts of length at
\* most n: every title with a sample copyright, and every copyright with an
\* empty title.
NameRecords(n) ==
  {[Startdate |-> NameStartdate, Title |-> t, Copyright |-> c, URL |-> <<>>] :
     t \in NameStrings(n), c \in SampleCopyrights}
  \cup {[Startdate |-> NameStartdate, Title |-> <<>>, Copyright |-> c, URL |-> <<>>] :
          c \in NameStrings(n)}

\* The pieces relative image URLs are made of: the resolution token, its two
\* halves, and other text.
URLPieces ==
  {ResolutionToken, <<"1", "9", "2", "0">>, <<"x", "1", "0", "8", "0">>, <<"/", "a">>, <<"&">>}

RECURSIVE Concat(_)
\* The strings of a sequence, one after the other.
Concat(ss) == IF ss = <<>> THEN <<>> ELSE Head(ss) \o Concat(Tail(ss))

\* The relative URLs of the records GetBingImageURL is called with, of at
\* most n pieces.
URLInputs(n) == {Concat(ps) : ps \in Strings(URLPieces, n)}

\* The state of the naming functions before any of them was called on the
\* given record, output directory, client quality and custom file name.
NamedInput(kind, rec, base, hq, custom) ==
  [kind |-> kind, called |-> "none", rec |-> rec, base |-> base, hq |-> hq,
   supplied |-> custom, custom |-> custom,
   image |-> <<>>, json |-> <<>>, extracted |-> <<>>, again |-> <<>>, url |-> <<>>,
   paths |-> <<>>]

\* What the naming functions are called on: records with texts of length at
\* most len and the record of the spec's example, relative URLs of at most
\* pieces pieces with both client qualities, and custom names of length at
\* most len.
NameInputs(len, pieces) ==
  {NamedInput("default", r, OutputDir, DefaultHighQuality, <<>>) : r \in NameRecords(len)}
  \cup {NamedInput("default", AuroraRecord, AuroraDir, DefaultHighQuality, <<>>)}
  \cup {NamedInput("url", [NoImageData EXCEPT !.URL = u], OutputDir, hq, <<>>) :
          u \in URLInputs(pieces), hq \in BOOLEAN}
  \cup {NamedInput("custom", NoImageData, OutputDir, DefaultHighQuality, n) :
          n \in Strings(CustomAlphabet, len)}

\* A generator, a client or a custom generator was constructed and nothing
\* was called on it.
InitNames ==
  /\ pc = "idle"
  /\ op = "none"
  /\ days = 0
  /\ continueOnError = FALSE
  /\ SaveJsonData = TRUE
  /\ imageDataList = <<>>
  /\ i = 0
  /\ daysAgo = 0
  /\ count = 0
  /\ imageData = NoImageData
  /\ result = <<>>
  /\ dayErr = NoErr
  /\ bytes = GarbageBody
  /\ results = <<>>
  /\ lastError = NoErr
  /\ ret = NoReturn
  /\ log = <<>>
  /\ files = <<>>
  /\ pair = NoPair
  /\ named \in NameInputs(MaxStrLen, MaxPieces)
  /\ cli = NoCli
  /\ archive = 0

\* The description inside an image path made by the default generator under
\* base for a record of the given start date: what stands between
\* "{startdate}_" and ".jpg".
EmbeddedDescription(path, base, startdate) ==
  SubSeq(path, Len(base) + Len(startdate) + 3, Len(path) - 4)

\* DefaultFilenameGenerator.GenerateImageFilename and GenerateJsonFilename are
\* called on the record.
CallGenerateFilenames ==
  /\ named.kind = "default"
  /\ named.called = "none"
  /\ named' = [named EXCEPT !.called = "generated",
                            !.image = GenerateImageFilename(named.rec, named.base),
                            !.json = GenerateJsonFilename(named.rec, named.base)]
  /\ UNCHANGED <<pc, op, days, continueOnError, SaveJsonData, imageDataList, i, daysAgo,
                 count, imageData, result, dayErr, bytes, results, lastError, ret, log,
                 files, pair, cli, archive>>

\* ExtractWallpaperDescription is called on the record.
CallExtractWallpaperDescription ==
  /\ named.kind = "default"
  /\ named.called = "generated"
  /\ named' = [named EXCEPT !.called = "extracted",
                            !.extracted = ExtractWallpaperDescription(named.rec)]
  /\ UNCHANGED <<pc, op, days, continueOnError, SaveJsonData, imageDataList, i, daysAgo,
                 count, imageData, result, dayErr, bytes, results, lastError, ret, log,
                 files, pair, cli, archive>>

\* GenerateImageFilename is called again, on the record with the description
\* of the first call as its title.
CallGenerateAgain ==
  /\ named.kind = "default"
  /\ named.called = "extracted"
  /\ LET described == EmbeddedDescription(named.image, named.base, named.rec.Startdate) IN
     named' = [named EXCEPT
                 !.called = "again",
                 !.again = GenerateImageFilename([named.rec EXCEPT !.Title = described],
                                                 named.base)]
  /\ UNCHANGED <<pc, op, days, continueOnError, SaveJsonData, imageDataList, i, daysAgo,
                 count, imageData, result, dayErr, bytes, results, lastError, ret, log,
                 files, pair, cli, archive>>

\* Client.FetchRawImageData, client.go:225-228: the URL it requests.
CallGetBingImageURL ==
  /\ named.kind = "url"
  /\ named.called = "none"
  /\ named' = [named EXCEPT !.called = "requested",
                            !.url = GetBingImageURL(named.rec, named.hq)]
  /\ UNCHANGED <<pc, op, days, continueOnError, SaveJsonData, imageDataList, i, daysAgo,
                 count, imageData, result, dayErr, bytes, results, lastError, ret, log,
                 files, pair, cli, archive>>

\* CustomFilenameGenerator.GenerateImageFilename and its promoted
\* GenerateJsonFilename are called on a record: with a custom name the
\* extension check rewrites g.CustomFilename and the name is joined to the
\* base path, without one the default generator names the image.
CallCustomGenerate(rec) ==
  /\ named.kind = "custom"
  /\ Len(named.paths) < MaxCalls
  /\ LET name == IF named.custom # <<>> THEN WithJpgExtension(named.custom) ELSE named.custom
         path == IF named.custom # <<>> THEN Join(named.base, name)
                 ELSE GenerateImageFilename(rec, named.base)
     IN named' = [named EXCEPT !.called = "custom",
                               !.rec = rec,
                               !.custom = name,
                               !.paths = Append(named.paths, path),
                               !.json = GenerateJsonFilename(rec, named.base)]
  /\ UNCHANGED <<pc, op, days, continueOnError, SaveJsonData, imageDataList, i, daysAgo,
                 count, imageData, result, dayErr, bytes, results, lastError, ret, log,
                 files, pair, cli, archive>>

NextNames ==
  \/ CallGenerateFilenames
  \/ CallExtractWallpaperDescription
  \/ CallGenerateAgain
  \/ CallGetBingImageURL
  \/ \E k \in 1..MaxRecords : CallCustomGenerate(ArchiveRecord(k))

SpecNames == InitNames /\ [][NextNames]_vars

(* ------------------------- vocabulary of the claims --------------------- *)

ListBatch == op \in {"SaveWallpapers", "DownloadLatestWallpapers"}

AnyBatch == ListBatch \/ op = "FetchAndSaveWallpapers"

\* The batch loop returned a list (it was entered and has ended).
BatchReturned == pc = "done" /\ AnyBatch /\ ret.returned /\ ~ret.isNil

\* Day d of the batch failed at the image fetch or the image save.
ImageFailedOn(d) ==
  \E p \in 1..Len(log) :
    log[p].day = d /\ log[p].kind \in {"image", "saveImage"} /\ ~log[p].ok

\* Day d of the day-by-day batch failed at its metadata fetch.
MetaFailedOn(d) ==
  \E p \in 1..Len(log) : log[p].day = d /\ log[p].kind = "metadata" /\ ~log[p].ok

\* Log entry p is the failure of a day of a batch: of its metadata fetch, its
\* image fetch or its image save.
FailureAt(p) ==
  /\ ~log[p].ok
  /\ log[p].kind \in {"metadata", "image", "saveImage"}
  /\ log[p].day >= 0

SomeDayFailed == \E p \in 1..Len(log) : FailureAt(p)

\* The record day d of the batch works on: the list's, or the archive's at offset d.
ExpectedRecord(d) ==
  IF op = "FetchAndSaveWallpapers" THEN ArchiveRecord(d + 1) ELSE imageDataList[d + 1]

\* A result of a day that succeeded / that failed at the image.
Succeeded(r) == r.DownloadErr = NoErr /\ r.ImagePath # <<>>
FailedAtImage(r) == r.DownloadErr # NoErr /\ r.ImagePath = <<>>

(* -------------------------------- C1 ----------------------------------- *)

\* C1: a list batch with continueOnError=true returns one result per input
\* record, in input order, each carrying its record; result d has a download
\* error and no image path exactly when day d failed at the image fetch or
\* the image save, and otherwise no error and an image path.
C1_ContinueKeepsEveryDay ==
  (BatchReturned /\ ListBatch /\ continueOnError) =>
    /\ Len(ret.list) = Len(imageDataList)
    /\ \A j \in 1..Len(imageDataList) :
         /\ ret.list[j].ImageData = imageDataList[j]
         /\ IF ImageFailedOn(j - 1) THEN FailedAtImage(ret.list[j])
            ELSE Succeeded(ret.list[j])

\* C1 witness: a 3-record batch ran through with only its middle day failing,
\* at the image save.
C1_Witness ==
  /\ BatchReturned /\ op = "DownloadLatestWallpapers" /\ continueOnError
  /\ Len(imageDataList) = 3
  /\ ~ImageFailedOn(0) /\ ImageFailedOn(1) /\ ~ImageFailedOn(2)
  /\ \E p \in 1..Len(log) : log[p].day = 1 /\ log[p].kind = "saveImage" /\ ~log[p].ok
  /\ Len(ret.list) = 3

(* -------------------------------- C2 ----------------------------------- *)

\* C2: in a batch with continueOnError=false the failure of a day is the last
\* thing that happens: no request, write or pacing delay follows it, the
\* batch returns a non-nil error, and the first k elements of the returned
\* list are the successful results of days 0..k-1 in order, k the failed day.
C2_StopAtFirstError ==
  (AnyBatch /\ ~continueOnError) =>
    /\ \A p \in 1..Len(log) : FailureAt(p) =>
         /\ p = Len(log)
         /\ pc \in {"dayReturn", "done"}
    /\ (pc = "done" /\ SomeDayFailed) =>
         LET k == log[Len(log)].day IN
         /\ ret.err # NoErr
         /\ Len(ret.list) >= k
         /\ \A j \in 1..k :
              ret.list[j].ImageData = ExpectedRecord(j - 1) /\ Succeeded(ret.list[j])

\* C2 witness: a 3-record batch stopped at its second record, the third was
\* never started.
C2_Witness ==
  /\ pc = "done" /\ op = "SaveWallpapers" /\ ~continueOnError
  /\ Len(imageDataList) = 3
  /\ SomeDayFailed /\ log[Len(log)].day = 1
  /\ ret.err # NoErr

(* -------------------------------- C3 ----------------------------------- *)

\* The batch stopped (continueOnError=false) at a day whose image fetch failed.
StoppedAtImageFetch ==
  /\ pc = "done" /\ AnyBatch /\ ~continueOnError /\ ret.returned
  /\ log # <<>>
  /\ FailureAt(Len(log)) /\ log[Len(log)].kind = "image"

\* C3 as claimed: the list returned when the batch stops at an image-fetch
\* failure ends with the failed day's own partial result.
C3_Original ==
  StoppedAtImageFetch =>
    /\ ret.list # <<>>
    /\ FailedAtImage(ret.list[Len(ret.list)])
    /\ ret.list[Len(ret.list)].ImageData = imageData

\* C3 amended: the list returned when the batch stops at an image-fetch
\* failure of day k holds exactly the k results of the days before it, all
\* successful; the failed day's partial result (its record, a download error,
\* no image path) is what its pipeline returned, and is not in the list.
C3_PartialResultDropped ==
  StoppedAtImageFetch =>
    LET k == log[Len(log)].day IN
    /\ Len(ret.list) = k
    /\ \A j \in 1..k : Succeeded(ret.list[j]) /\ ret.list[j].ImageData = ExpectedRecord(j - 1)
    /\ result # <<>>
    /\ FailedAtImage(result[1])
    /\ result[1].ImageData = ExpectedRecord(k)
    /\ ret.err # NoErr

\* C3 witness: day 2 of a 3-record batch failed at the image fetch and the
\* list returned has length 2.
C3_Witness ==
  /\ StoppedAtImageFetch /\ op = "DownloadLatestWallpapers"
  /\ Len(imageDataList) = 3
  /\ log[Len(log)].day = 2
  /\ Len(ret.list) = 2

(* -------------------------------- C4 ----------------------------------- *)

\* The days of the running batch for which a result exists: all of them but
\* those whose metadata fetch failed.
DaysWithResult == {d \in 0..(BatchLen - 1) : ~MetaFailedOn(d)}

\* C4: a batch with continueOnError=true that ran its loop returns a non-nil
\* error exactly when some day failed, and in both cases the list of every
\* day's result (one per record in the list batch).
C4_SummaryErrorIffFailed ==
  (BatchReturned /\ continueOnError) =>
    /\ (ret.err # NoErr) <=> SomeDayFailed
    /\ Len(ret.list) = Cardinality(DaysWithResult)
    /\ ListBatch => Len(ret.list) = Len(imageDataList)

\* C4 witness: a 3-day batch ran through with a failed day and returned the
\* summary error next to 3 results.
C4_Witness ==
  /\ BatchReturned /\ continueOnError
  /\ SomeDayFailed
  /\ ret.err # NoErr
  /\ Len(ret.list) = 3

(* -------------------------------- C5 ----------------------------------- *)

\* C5: for a day count outside 1..16, FetchMultipleImageData and
\* DownloadLatestWallpapers have returned a validation error with a nil
\* result, and no request was sent and no file written.
C5_OutOfRangeRejected ==
  (op \in {"FetchMultipleImageData", "DownloadLatestWallpapers"}
     /\ (days < 1 \/ days > MaxBatchDays)) =>
    /\ pc = "done"
    /\ ret.returned /\ ret.isNil /\ ret.list = <<>>
    /\ ret.err = <<"validation">>
    /\ log = <<>>
    /\ DOMAIN files = {}

\* C5 witness: DownloadLatestWallpapers was called with 0 days and returned.
C5_Witness ==
  /\ op = "DownloadLatestWallpapers" /\ days = 0
  /\ pc = "done" /\ ret.err # NoErr

(* -------------------------------- C6 ----------------------------------- *)

\* The last thing that happened is a failed JSON fetch or JSON save / a failed
\* image fetch or image save.
JsonFailedLast ==
  log # <<>> /\ log[Len(log)].kind \in {"json", "saveJson"} /\ ~log[Len(log)].ok
ImageFailedLast ==
  log # <<>> /\ log[Len(log)].kind \in {"image", "saveImage"} /\ ~log[Len(log)].ok

SomeJsonFailed ==
  \E p \in 1..Len(log) : log[p].kind \in {"json", "saveJson"} /\ ~log[p].ok

\* The image was written at path and nothing else was since.
SavedAt(path) ==
  /\ path # <<>>
  /\ path \in DOMAIN files
  /\ \E p \in 1..Len(log) : log[p].kind = "saveImage" /\ log[p].ok /\ log[p].target = path

\* A result whose image was saved and whose JSON step failed.
ImageOnly(r) ==
  /\ r.DownloadErr = NoErr /\ SavedAt(r.ImagePath)
  /\ r.JsonErr # NoErr /\ r.JsonPath = <<>>

\* C6: when the JSON fetch or the JSON save of a day fails after its image was
\* saved, the per-day pipeline returns no error and a result with no download
\* error, the saved image path, a JSON error and no JSON path; a batch whose
\* only failures are JSON failures runs through all its days, whatever
\* continueOnError is, and returns no error.
C6_JsonFailureNotFatal ==
  /\ (pc = "dayReturn" /\ JsonFailedLast) =>
       /\ SaveJsonData
       /\ dayErr = NoErr
       /\ result # <<>> /\ ImageOnly(result[1])
  /\ (pc = "done" /\ op \in {"FetchAndSaveWallpaper", "SaveWallpaper"} /\ JsonFailedLast) =>
       /\ ret.err = NoErr
       /\ ~ret.isNil /\ ImageOnly(ret.list[1])
  /\ (pc = "done" /\ AnyBatch /\ ret.returned /\ SomeJsonFailed /\ ~SomeDayFailed) =>
       /\ ret.err = NoErr
       /\ Len(ret.list) = BatchLen
       /\ \A j \in 1..BatchLen : ret.list[j].DownloadErr = NoErr

\* C6 witness: a 3-record batch with continueOnError=false whose first day
\* failed at the JSON fetch ran through and returned 3 results and no error.
C6_Witness ==
  /\ pc = "done" /\ op = "DownloadLatestWallpapers" /\ ~continueOnError
  /\ \E p \in 1..Len(log) : log[p].kind = "json" /\ log[p].day = 0 /\ ~log[p].ok
  /\ Len(ret.list) = 3
  /\ ImageOnly(ret.list[1])
  /\ ret.err = NoErr

(* -------------------------------- C7 ----------------------------------- *)

\* A partial result: the record, a download error, no paths.
Partial(r, rec) ==
  /\ r.ImageData = rec
  /\ r.DownloadErr # NoErr
  /\ r.ImagePath = <<>> /\ r.JsonPath = <<>>

\* C7: when the image fetch or the image save of a day fails, the per-day
\* pipeline returns an error and a non-nil partial result (the day's record, a
\* download error, no image path and no JSON path), and nothing more is done
\* for that day: when the call has returned, its log has no write after a
\* failed image fetch and no JSON fetch and no JSON write after either failure.
C7_ImageFailurePartialResult ==
  /\ (pc = "dayReturn" /\ ImageFailedLast) =>
       /\ dayErr # NoErr
       /\ result # <<>> /\ Partial(result[1], imageData)
  /\ (pc = "done" /\ op \in {"FetchAndSaveWallpaper", "SaveWallpaper"} /\ ImageFailedLast) =>
       /\ ret.err # NoErr
       /\ ~ret.isNil /\ Partial(ret.list[1], imageData)
  /\ pc = "done" =>
       \A p \in 1..Len(log) :
         (log[p].kind \in {"image", "saveImage"} /\ ~log[p].ok) =>
           \A q \in (p + 1)..Len(log) :
             log[q].day = log[p].day => log[q].kind = "sleep"

\* C7 witness: SaveWallpaper fetched the image, failed to save it and returned.
C7_Witness ==
  /\ pc = "done" /\ op = "SaveWallpaper"
  /\ ImageFailedLast /\ log[Len(log)].kind = "saveImage"
  /\ Len(log) = 2
  /\ ret.err # NoErr /\ ~ret.isNil

(* -------------------------------- C8 ----------------------------------- *)

\* C8: when the metadata fetch of FetchAndSaveWallpaper or of
\* DownloadLatestWallpapers fails (the request fails, the body cannot be
\* decoded or holds no image), that request is all that ever happens: no
\* image request, no write, no pacing delay; and the call returns a nil
\* result with an error.
C8_MetadataFailureAborts ==
  (op \in {"FetchAndSaveWallpaper", "DownloadLatestWallpapers"}
     /\ \E p \in 1..Len(log) : log[p].kind = "metadata" /\ ~log[p].ok) =>
    /\ Len(log) = 1
    /\ DOMAIN files = {}
    /\ pc \in {"dayReturn", "done"}
    /\ pc = "done" => (ret.isNil /\ ret.list = <<>> /\ ret.err # NoErr)

\* C8 witness: DownloadLatestWallpapers(3, _) returned after its metadata
\* request failed.
C8_Witness ==
  /\ op = "DownloadLatestWallpapers" /\ days = 3 /\ pc = "done"
  /\ Len(log) = 1 /\ log[1].kind = "metadata" /\ ~log[1].ok
  /\ ret.isNil

(* -------------------------------- C9 ----------------------------------- *)

\* The paths of the naming scheme for the archive's three most recent records,
\* under the output directory "/o": {startdate}_{description}.jpg and
\* bing_data_{startdate}.json.
ExpectedImagePaths ==
  << <<"/", "o", "/", "2", "0", "2", "4", "0", "1", "2", "9", "_", "A", "_", "B",
       ".", "j", "p", "g">>,
     <<"/", "o", "/", "2", "0", "2", "4", "0", "1", "2", "8", "_", "C", "-", "d",
       ".", "j", "p", "g">>,
     <<"/", "o", "/", "2", "0", "2", "4", "0", "1", "2", "7", "_", "G", "-", "'", "H",
       ".", "j", "p", "g">> >>

ExpectedJsonPaths ==
  << <<"/", "o", "/", "b", "i", "n", "g", "_", "d", "a", "t", "a", "_",
       "2", "0", "2", "4", "0", "1", "2", "9", ".", "j", "s", "o", "n">>,
     <<"/", "o", "/", "b", "i", "n", "g", "_", "d", "a", "t", "a", "_",
       "2", "0", "2", "4", "0", "1", "2", "8", ".", "j", "s", "o", "n">>,
     <<"/", "o", "/", "b", "i", "n", "g", "_", "d", "a", "t", "a", "_",
       "2", "0", "2", "4", "0", "1", "2", "7", ".", "j", "s", "o", "n">> >>

\* DownloadLatestWallpapers(3, true) on the default configuration returned,
\* the endpoint sent 3 records and every request and write succeeded.
ThreeDaysAllWell ==
  /\ op = "DownloadLatestWallpapers" /\ pc = "done" /\ ret.returned
  /\ days = 3 /\ continueOnError /\ SaveJsonData
  /\ Len(imageDataList) = 3
  /\ \A p \in 1..Len(log) : log[p].ok

\* C9: DownloadLatestWallpapers issues its one metadata request, for
\* (0, days), before anything else and never another one; and called with
\* (3, true) in the default configuration, with a 3-record archive and nothing
\* failing, it returns 3 results without download or JSON error whose image
\* and JSON paths are those of the naming scheme, and no error.
C9_OneMetadataCallThreeResults ==
  /\ (op = "DownloadLatestWallpapers" /\ log # <<>>) =>
       /\ log[1].kind = "metadata" /\ log[1].idx = 0 /\ log[1].n = days
       /\ days >= 1 /\ days <= MaxBatchDays
       /\ \A p \in 2..Len(log) : log[p].kind # "metadata"
  /\ ThreeDaysAllWell =>
       /\ ret.err = NoErr
       /\ Len(ret.list) = 3
       /\ \A j \in 1..3 :
            /\ ret.list[j].DownloadErr = NoErr
            /\ ret.list[j].JsonErr = NoErr
            /\ ret.list[j].ImagePath = ExpectedImagePaths[j]
            /\ ret.list[j].JsonPath = ExpectedJsonPaths[j]
            /\ ret.list[j].ImagePath \in DOMAIN files
            /\ ret.list[j].JsonPath \in DOMAIN files

\* C9 witness: that call returned its 3 results.
C9_Witness ==
  /\ ThreeDaysAllWell
  /\ Len(ret.list) = 3
  /\ Cardinality({p \in 1..Len(log) : log[p].kind = "metadata"}) = 1
  /\ Cardinality({p \in 1..Len(log) : log[p].kind = "image"}) = 3

(* -------------------------------- C10 ---------------------------------- *)

\* FetchMultipleImageData returned without error.
FetchMultipleSucceeded ==
  op = "FetchMultipleImageData" /\ pc = "done" /\ ret.returned /\ ret.err = NoErr

\* C10 as claimed: a successful FetchMultipleImageData(days) returns exactly
\* days records, whatever image list the response body holds.
C10_Original ==
  FetchMultipleSucceeded => Len(ret.list) = days

\* C10 amended: a successful FetchMultipleImageData(days), days in 1..16, made
\* one request for (0, days) and returns exactly the image list of the
\* response body, in the body's order (most recent first); it holds days
\* records only when the endpoint sent days images, the count is not checked.
C10_ReturnsBodyImages ==
  FetchMultipleSucceeded =>
    /\ days >= 1 /\ days <= MaxBatchDays
    /\ Len(log) = 1 /\ log[1].kind = "metadata" /\ log[1].idx = 0 /\ log[1].n = days
    /\ ~ret.isNil
    /\ bytes.decodable
    /\ ret.list = bytes.images
    /\ Len(ret.list) >= 1
    /\ \A j \in 1..Len(ret.list) : ret.list[j] = ArchiveRecord(j)

\* C10 witness: FetchMultipleImageData(1) returned the 2 records the endpoint
\* sent.
C10_Witness ==
  /\ FetchMultipleSucceeded
  /\ days = 1
  /\ Len(bytes.images) = 2
  /\ Len(ret.list) = 2

(* ---------------------------------- C11 --------------------------------- *)

\* What the claim compares of two returns: the length of the lists, the error
\* fields and the paths of each entry, and whether an error was returned.
SameReturn(a, b) ==
  /\ Len(a.list) = Len(b.list)
  /\ \A k \in 1..Len(a.list) :
       k \in 1..Len(b.list) =>
         /\ a.list[k].DownloadErr = b.list[k].DownloadErr
         /\ a.list[k].JsonErr = b.list[k].JsonErr
         /\ a.list[k].ImagePath = b.list[k].ImagePath
         /\ a.list[k].JsonPath = b.list[k].JsonPath
  /\ (a.err = NoErr) <=> (b.err = NoErr)

\* Both paths have run to their end on the same arguments and outcomes.
BothPathsEnded == pair.run = 2 /\ pc \in {"done", "panic"}

\* No metadata request fails: not the batch request of the first path, and
\* no day's request of the second.
NoMetadataFailure ==
  pair.batchMeta = "ok" /\ \A d \in DOMAIN pair.oracle : pair.oracle[d] # "metadata"

\* C11 as stated: for the same days, flag and outcomes, also for days outside
\* 1..16 and for a day whose metadata fetch fails, FetchAndSaveWallpapers
\* returns what DownloadLatestWallpapers returned: lists of the same length
\* with the same per-day errors and paths, and an error or none alike.
C11_Original ==
  BothPathsEnded => pc = "done" /\ SameReturn(pair.first, ret)

\* C11: for days in 1..16 and when no metadata request fails, both paths return
\* the same list of results and both return an error or both none. For
\* days = 0 DownloadLatestWallpapers returns the range error and
\* FetchAndSaveWallpapers an empty list without error; for negative days
\* FetchAndSaveWallpapers panics and returns nothing.
C11_SamePerDaySemanticsInRange ==
  /\ (BothPathsEnded /\ ValidDays(days) /\ NoMetadataFailure) =>
        /\ pc = "done"
        /\ ret.list = pair.first.list
        /\ SameReturn(pair.first, ret)
  /\ (BothPathsEnded /\ days = 0) =>
        /\ pair.first.isNil /\ pair.first.err = <<"validation">>
        /\ pc = "done" /\ ~ret.isNil /\ ret.list = <<>> /\ ret.err = NoErr
  /\ (pair.run = 2 /\ days < 0) =>
        /\ pair.first.isNil /\ pair.first.err = <<"validation">>
        /\ ~ret.returned

\* Both paths ran over three days with continueOnError, the second day failed
\* at its image and the third at its JSON request.
C11_Witness ==
  /\ BothPathsEnded /\ pc = "done" /\ NoMetadataFailure
  /\ days = 3 /\ continueOnError /\ SaveJsonData
  /\ pair.oracle = <<"none", "image", "json">>
  /\ Len(ret.list) = 3 /\ ret.list[2].DownloadErr # NoErr /\ ret.list[3].JsonErr # NoErr
  /\ ret.err # NoErr /\ pair.first.err # NoErr

(* ---------------------------------- C12 --------------------------------- *)

\* The positions of the log that are requests to the archive endpoint.
ArchiveRequests == {p \in 1..Len(log) : log[p].kind \in {"metadata", "json"}}

\* C12 as stated: every request to the archive endpoint, whatever the
\* arguments of the operation, has idx in 0..15 and n in 1..16.
C12_Original ==
  \A p \in 1..Len(log) :
    log[p].kind \in {"metadata", "json"} =>
      log[p].idx \in 0..(MaxBatchDays - 1) /\ log[p].n \in 1..MaxBatchDays

\* C12: every request to the archive endpoint has n in 1..16: n is the checked
\* day count in the batch metadata request and 1 in every other request. idx
\* is 0 in the batch metadata request, the index of the day inside a batch
\* loop, and the caller's daysAgo, unchecked, in a single-day operation: it is
\* negative when the caller passes a negative daysAgo.
C12_CountCheckedIndexUnchecked ==
  \A p \in 1..Len(log) :
    log[p].kind \in {"metadata", "json"} =>
    /\ log[p].n \in 1..MaxBatchDays
    /\ (op \in {"FetchMultipleImageData", "DownloadLatestWallpapers"}
          /\ log[p].kind = "metadata") =>
         log[p].idx = 0 /\ log[p].n = days /\ p = 1
    /\ op \in {"FetchAndSaveWallpaper", "SaveWallpaper"} =>
         log[p].idx = days /\ log[p].n = 1
    /\ log[p].day >= 0 =>
         log[p].idx = log[p].day /\ log[p].n = 1 /\ log[p].idx < BatchLen
    /\ log[p].idx < 0 => op \in {"FetchAndSaveWallpaper", "SaveWallpaper"} /\ days < 0

\* DownloadLatestWallpapers(16) asked for 16 records at index 0 and re-requested
\* the third day at index 2.
C12_Witness ==
  /\ op = "DownloadLatestWallpapers" /\ days = MaxBatchDays
  /\ 1 \in ArchiveRequests /\ log[1].n = MaxBatchDays /\ log[1].idx = 0
  /\ \E p \in ArchiveRequests : log[p].kind = "json" /\ log[p].idx = 2 /\ log[p].n = 1

(* ---------------------------------- C13 --------------------------------- *)

\* The positions of the log that are pacing delays.
Delays == {p \in 1..Len(log) : log[p].kind = "sleep"}

\* The pipeline of record d ran: it made a request or a write.
Processed(d) == \E p \in 1..Len(log) : log[p].kind # "sleep" /\ log[p].day = d

\* C13: in a batch over n records a delay is only taken after the pipeline of
\* a record i < n - 1, never after the last, and the pipeline of record i + 1
\* follows it; when the batch has returned, its log has every delay between
\* the pipeline of its record and the pipeline of the next, exactly one delay
\* after every record after which the batch went on to the next, failed or
\* not, and exactly n - 1 delays if the batch ran through all n records.
C13_DelayBetweenConsecutiveDays ==
  /\ ~AnyBatch => \A p \in 1..Len(log) : log[p].kind # "sleep"
  /\ pc = "sleep" => AnyBatch /\ i < BatchLen - 1
  /\ (log # <<>> /\ log[Len(log)].kind = "sleep") =>
       /\ pc \in {"loop", "meta", "imgFetch"}
       /\ i = log[Len(log)].day + 1 /\ i < BatchLen
  /\ (pc = "done" /\ AnyBatch) =>
       /\ \A p \in Delays :
            /\ log[p].day >= 0 /\ log[p].day < BatchLen - 1
            /\ p > 1 /\ log[p - 1].kind # "sleep" /\ log[p - 1].day = log[p].day
            /\ p < Len(log) /\ log[p + 1].kind # "sleep" /\ log[p + 1].day = log[p].day + 1
       /\ \A d \in 0..(BatchLen - 2) :
            /\ Cardinality({p \in Delays : log[p].day = d}) <= 1
            /\ Processed(d + 1) => \E p \in Delays : log[p].day = d
       /\ (BatchLen >= 1 /\ \A d \in 0..(BatchLen - 1) : Processed(d)) =>
            Cardinality(Delays) = BatchLen - 1

\* A batch over three records with continueOnError ran through, its first
\* record failed at the image, and two delays were taken.
C13_Witness ==
  /\ BatchReturned /\ op = "SaveWallpapers" /\ BatchLen = 3 /\ continueOnError
  /\ ImageFailedOn(0)
  /\ Cardinality(Delays) = 2
  /\ \E p \in Delays : log[p].day = 0 /\ ~log[p - 1].ok

(* ---------------------------------- C20 --------------------------------- *)

\* The positions of the log that are requests (metadata, image, JSON).
IsRequest(p) == log[p].kind \in {"metadata", "image", "json"}
Requests == {p \in 1..Len(log) : IsRequest(p)}

\* Two requests went to the same URL: the same archive query, or the same image.
SameURL(p, q) ==
  \/ /\ log[p].kind \in {"metadata", "json"} /\ log[q].kind \in {"metadata", "json"}
     /\ log[p].idx = log[q].idx /\ log[p].n = log[q].n
  \/ log[p].kind = "image" /\ log[q].kind = "image" /\ log[p].target = log[q].target

\* C20: after a failed request (transport failure, bad status, unreadable or
\* undecodable body, zero images) the day's pipeline or the metadata fetch
\* returns at once; when the call has returned, its log has every stage of a
\* day (metadata request, image request, image write, JSON request, JSON
\* write) at most once and, after a failed request, nothing more for that
\* day and no later request to the same URL; a metadata fetch called on its
\* own returns the error.
C20_NoRetry ==
  /\ (log # <<>> /\ IsRequest(Len(log)) /\ ~log[Len(log)].ok) =>
       pc \in {"dayReturn", "done", "loop", "sleep"}
  /\ pc = "done" =>
       /\ \A p \in 1..Len(log) : \A q \in (p + 1)..Len(log) :
            log[p].day = log[q].day => log[p].kind # log[q].kind
       /\ \A p \in 1..Len(log) :
            (IsRequest(p) /\ ~log[p].ok) =>
              /\ \A q \in (p + 1)..Len(log) :
                   /\ ~(IsRequest(q) /\ SameURL(p, q))
                   /\ log[q].day = log[p].day => log[q].kind = "sleep"
              /\ log[p].day = -1 => p = Len(log)
  /\ (op = "FetchMultipleImageData" /\ pc = "done" /\ log # <<>> /\ ~log[1].ok) =>
       ret.isNil /\ ret.err # NoErr /\ Len(log) = 1

\* A day-by-day batch with continueOnError went on after the metadata request
\* of its first day failed and after the image request of its second day failed.
C20_Witness ==
  /\ BatchReturned /\ op = "FetchAndSaveWallpapers" /\ days = 3 /\ continueOnError
  /\ MetaFailedOn(0)
  /\ \E p \in Requests : log[p].kind = "image" /\ log[p].day = 1 /\ ~log[p].ok
  /\ Cardinality({p \in Requests : log[p].kind = "metadata"}) = 3

(* ----------------------- vocabulary of C14 .. C19 ----------------------- *)

\* The characters a file name must not contain.
Forbidden == {"/", "\\", ":", "?", "*", "<", ">", "|", "\""}

\* The default generator was called on the record.
DefaultNamed == named.kind = "default" /\ named.called # "none"

\* What a path has below the base directory and its separator.
NameUnder(path, base) == SubSeq(path, Len(base) + 2, Len(path))

\* The description inside the image path of the first call, and inside the
\* image path of the call on the re-titled record.
Described == EmbeddedDescription(named.image, named.base, named.rec.Startdate)
DescribedAgain == EmbeddedDescription(named.again, named.base, named.rec.Startdate)

\* The smallest element of a non-empty set of numbers.
Least(S) == CHOOSE k \in S : \A j \in S : k <= j

\* The text of s before the first c, all of s when it has none.
BeforeFirst(s, c) ==
  LET at == {k \in 1..Len(s) : s[k] = c} IN
  IF at = {} THEN s ELSE SubSeq(s, 1, Least(at) - 1)

\* s without the white space at its two ends.
Trimmed(s) ==
  LET inked == {k \in 1..Len(s) : s[k] \notin Whitespace} IN
  IF inked = {} THEN <<>>
  ELSE SubSeq(s, Least(inked), CHOOSE k \in inked : \A j \in inked : j <= k)

\* What the spec's table makes of one character.
Replaced(c) ==
  CASE c = " " -> <<"_">>
    [] c \in {"/", "\\", ":", "|"} -> <<"-">>
    [] c \in {"?", "*", "<", ">"} -> <<>>
    [] c = "\"" -> <<"'">>
    [] OTHER -> <<c>>

\* The description the spec gives a record: the title when it is not empty,
\* else the copyright before its first full-width comma and then before its
\* first "(", trimmed, every character replaced by the table.
ExpectedDescription(rec) ==
  LET text == IF rec.Title # <<>> THEN rec.Title
              ELSE BeforeFirst(BeforeFirst(rec.Copyright, FWComma), "(")
      kept == Trimmed(text)
  IN Concat([k \in 1..Len(kept) |-> Replaced(kept[k])])

JpgSuffix == <<".", "j", "p", "g">>

\* base/bing_data_{startdate}.json
ExpectedJsonPath(base, startdate) ==
  base \o <<"/", "b", "i", "n", "g", "_", "d", "a", "t", "a", "_">> \o startdate \o <<".", "j", "s", "o", "n">>

(* ---------------------------------- C14 --------------------------------- *)

\* C14: for every title and copyright, empty ones and ones made of forbidden
\* characters only included, GenerateImageFilename returns a path that is the
\* base directory, a separator and one file name ending in ".jpg", and the
\* file name has none of / \ : ? * < > | " and no space.
C14_SanitizedFileName ==
  DefaultNamed =>
    LET name == NameUnder(named.image, named.base) IN
    /\ HasPrefix(named.image, named.base \o <<"/">>)
    /\ HasPrefix(name, named.rec.Startdate \o <<"_">>)
    /\ Len(name) >= Len(named.rec.Startdate) + 5
    /\ SubSeq(name, Len(name) - 3, Len(name)) = JpgSuffix
    /\ \A k \in 1..Len(name) : name[k] \notin Forbidden \cup {" "}

\* A title made of forbidden characters only was named.
C14_Witness ==
  /\ DefaultNamed
  /\ named.rec.Title = <<"?", "/", "\"">>
  /\ NameUnder(named.image, named.base) = NameStartdate \o <<"_", "-", "'">> \o JpgSuffix

(* ---------------------------------- C15 --------------------------------- *)

\* The white space that is trimmed and never turned into an underscore.
OtherWhitespace == Whitespace \ {" "}

\* C15 as stated: over letters, forbidden characters, space, tab and newline
\* the description of the record re-titled with its description is that
\* description again.
C15_Original == named.called = "again" => DescribedAgain = Described

\* C15: the description of the record re-titled with its description is that
\* description again when it is not empty and has no white space at its two
\* ends, which is so whenever the title and the copyright have no white space
\* but the space; in every case it is the description with the white space at its
\* ends removed, unless that is empty, when the copyright is described.
C15_IdempotentUnlessEdgeWhitespace ==
  named.called = "again" =>
    /\ (Described # <<>> /\ Trimmed(Described) = Described) => DescribedAgain = Described
    /\ (/\ Described # <<>>
        /\ \A k \in 1..Len(named.rec.Title) : named.rec.Title[k] \notin OtherWhitespace
        /\ \A k \in 1..Len(named.rec.Copyright) :
             named.rec.Copyright[k] \notin OtherWhitespace)
         => DescribedAgain = Described
    /\ Described # <<>> => DescribedAgain = Trimmed(Described)
    /\ Described = <<>> =>
         DescribedAgain = ExpectedDescription([named.rec EXCEPT !.Title = <<>>])

\* A title with a space inside and a removed character at its end was
\* described and described again.
C15_Witness ==
  /\ named.called = "again"
  /\ named.rec.Title = <<"a", " ", "?">>
  /\ Described = <<"a", "_">>
  /\ DescribedAgain = <<"a", "_">>

(* ---------------------------------- C16 --------------------------------- *)

\* C16: the image path is the base directory joined with
\* "{startdate}_{description}.jpg", the description being the sanitized title
\* or, for an empty title, the sanitized copyright before its first full-width
\* comma and its first "("; the JSON path is the base directory joined with
\* "bing_data_{startdate}.json" whatever the title and copyright; start date
\* 20240115 and title "Aurora Borealis" under /out give
\* /out/20240115_Aurora_Borealis.jpg and /out/bing_data_20240115.json.
C16_FilenameFormat ==
  DefaultNamed =>
    /\ named.image = named.base \o <<"/">> \o named.rec.Startdate \o <<"_">>
                       \o ExpectedDescription(named.rec) \o JpgSuffix
    /\ named.json = ExpectedJsonPath(named.base, named.rec.Startdate)
    /\ (named.rec = AuroraRecord /\ named.base = AuroraDir) =>
         /\ named.image = <<"/", "o", "u", "t", "/", "2", "0", "2", "4", "0", "1", "1", "5", "_", "A", "u", "r", "o", "r", "a", "_", "B", "o", "r", "e", "a", "l", "i", "s", ".", "j", "p", "g">>
         /\ named.json = <<"/", "o", "u", "t", "/", "b", "i", "n", "g", "_", "d", "a", "t", "a", "_", "2", "0", "2", "4", "0", "1", "1", "5", ".", "j", "s", "o", "n">>

\* The record of the example was named under /out.
C16_Witness ==
  /\ DefaultNamed
  /\ named.rec = AuroraRecord /\ named.base = AuroraDir
  /\ Described = <<"A", "u", "r", "o", "r", "a", "_", "B", "o", "r", "e", "a", "l", "i", "s">>

(* ---------------------------------- C17 --------------------------------- *)

\* C17: for every title and copyright ExtractWallpaperDescription returns the
\* description that GenerateImageFilename put between "{startdate}_" and
\* ".jpg" of the image path.
C17_SameDescription ==
  (named.kind = "default" /\ named.called \in {"extracted", "again"}) =>
    named.extracted = Described

\* A record without title was described from its copyright by both.
C17_Witness ==
  /\ named.kind = "default" /\ named.called = "extracted"
  /\ named.rec.Title = <<>>
  /\ named.rec.Copyright = <<" ", "a", "(">>
  /\ named.extracted = <<"a">>

(* ---------------------------------- C18 --------------------------------- *)

\* The name has an extension: a dot in its last path element.
HasExtension(name) ==
  \E k \in 1..Len(name) : name[k] = "." /\ \A j \in k..Len(name) : name[j] # "/"

\* C18: a custom generator with a non-empty name returns on every call, for
\* every record, the base directory joined with the supplied name, ".jpg"
\* appended once when the supplied name has no extension; its JSON path is the
\* default generator's bing_data_{startdate}.json.
C18_CustomNameFixed ==
  (named.kind = "custom" /\ named.supplied # <<>> /\ named.paths # <<>>) =>
    LET name == IF HasExtension(named.supplied) THEN named.supplied
                ELSE named.supplied \o JpgSuffix
    IN /\ \A k \in 1..Len(named.paths) : named.paths[k] = Join(named.base, name)
       /\ named.custom = name
       /\ named.json = ExpectedJsonPath(named.base, named.rec.Startdate)

\* A custom generator named "a" was called MaxCalls times, last on the second
\* record of the archive.
C18_Witness ==
  /\ named.kind = "custom" /\ named.supplied = <<"a">>
  /\ Len(named.paths) = MaxCalls
  /\ named.rec = ArchiveRecord(2)
  /\ named.paths[MaxCalls] = OutputDir \o <<"/", "a">> \o JpgSuffix

(* ---------------------------------- C19 --------------------------------- *)

\* The positions of s where the resolution token stands.
TokenAt(s) ==
  {k \in 1..(Len(s) - Len(ResolutionToken) + 1) :
     SubSeq(s, k, k + Len(ResolutionToken) - 1) = ResolutionToken}

\* FetchRawImageData was called on a record.
URLRequested == named.kind = "url" /\ named.called = "requested"

\* C19 as stated: the requested URL is the host followed by the record's URL;
\* in high-quality mode the token is replaced by "UHD" and the requested URL
\* has the token no more; without the mode or the token the URL is unchanged.
C19_Original ==
  URLRequested =>
    LET plain == BingHost \o named.rec.URL IN
    /\ (named.hq /\ TokenAt(plain) # {}) => named.url # plain /\ TokenAt(named.url) = {}
    /\ (~named.hq \/ TokenAt(plain) = {}) => named.url = plain

\* C19: the requested URL is the host followed by the record's URL; in
\* high-quality mode the first occurrence of the token is replaced by "UHD"
\* and every later one is kept, so the requested URL has one occurrence
\* less; without the mode or the token the URL is unchanged.
C19_FirstTokenReplaced ==
  URLRequested =>
    LET plain == BingHost \o named.rec.URL IN
    /\ (named.hq /\ TokenAt(plain) # {}) =>
         LET k == Least(TokenAt(plain)) IN
         /\ named.url = SubSeq(plain, 1, k - 1) \o UHDToken
                          \o SubSeq(plain, k + Len(ResolutionToken), Len(plain))
         /\ Cardinality(TokenAt(named.url)) = Cardinality(TokenAt(plain)) - 1
    /\ (~named.hq \/ TokenAt(plain) = {}) => named.url = plain

\* A URL with the token twice was requested in high-quality mode: the first
\* became "UHD", the second stayed.
C19_Witness ==
  /\ URLRequested /\ named.hq
  /\ named.rec.URL = ResolutionToken \o <<"&">> \o ResolutionToken
  /\ named.url = BingHost \o UHDToken \o <<"&">> \o ResolutionToken

(* -------------------------------- C23 ---------------------------------- *)

\* The DownloadResults an operation has returned: the list of a batch, the one
\* result of SaveWallpaper or FetchAndSaveWallpaper (none when it returned nil).
ReturnedResults ==
  IF pc = "done" /\ ret.returned /\ ~ret.isNil
       /\ op \notin {"FetchMultipleImageData", "SaveImageFromReader"}
  THEN {ret.list[j] : j \in 1..Len(ret.list)}
  ELSE {}

\* The field invariant of a DownloadResult.
WellFormed(r) ==
  /\ (r.ImagePath # <<>>) <=> (r.DownloadErr = NoErr)
  /\ r.JsonPath # <<>> => (r.JsonErr = NoErr /\ r.DownloadErr = NoErr)
  /\ r.JsonErr # NoErr => r.ImagePath # <<>>
  /\ ~(r.JsonPath # <<>> /\ r.JsonErr # NoErr)

\* C23: every DownloadResult returned by a Downloader operation has an image
\* path exactly when it has no download error, a JSON path only when it has
\* neither a JSON error nor a download error, a JSON error only when it has an
\* image path, and never both a JSON path and a JSON error; the same holds
\* of every result the per-day pipeline hands to the batch loop and of every
\* result the loop has collected.
C23_ResultFieldsConsistent ==
  /\ \A r \in ReturnedResults : WellFormed(r)
  /\ (pc = "dayReturn" /\ result # <<>>) => WellFormed(result[1])
  /\ \A j \in 1..Len(results) : WellFormed(results[j])

\* C23 witness: a batch returned three results: one with a JSON path, one with
\* a JSON error and one with a download error.
C23_Witness ==
  /\ BatchReturned /\ Len(ret.list) = 3
  /\ \E r \in ReturnedResults : r.JsonPath # <<>> /\ r.ImagePath # <<>>
  /\ \E r \in ReturnedResults : r.JsonErr # NoErr /\ r.ImagePath # <<>>
  /\ \E r \in ReturnedResults : r.DownloadErr # NoErr /\ r.ImagePath = <<>>

(* -------------------------------- C22 ---------------------------------- *)

\* The JSON requests of day d, and whether log entry p is a saved image.
JsonRequests(d) == {q \in 1..Len(log) : log[q].kind = "json" /\ log[q].day = d}
ImageSavedAt(p) == log[p].kind = "saveImage" /\ log[p].ok

\* A result without JSON path and JSON error.
NoJson(r) == r.JsonPath = <<>> /\ r.JsonErr = NoErr

\* C22: with SaveJsonData set, the step after a saved image is a JSON request;
\* a JSON request just made directly follows the saved image of its day, is
\* the only one of its day and asks for (daysAgo, 1), daysAgo being the index
\* of the day's record in the metadata list in a list batch; its body is what
\* goes to the JSON write, and a JSON file just written holds the body of the
\* JSON request before it. When the operation has ended, every saved image is
\* followed by the one JSON request of its day. With SaveJsonData unset there
\* is no JSON request and no JSON write, and every result has neither a JSON
\* path nor a JSON error.
C22_JsonReRequested ==
  LET n == Len(log) IN
  /\ (n > 0 /\ log[n].kind = "json" /\ pc \in {"jsonSave", "dayReturn"}) =>
       /\ SaveJsonData
       /\ n >= 2 /\ ImageSavedAt(n - 1) /\ log[n - 1].day = log[n].day
       /\ log[n].idx = daysAgo /\ log[n].n = 1
       /\ ListBatch => (daysAgo = i /\ imageData = imageDataList[i + 1])
       /\ JsonRequests(log[n].day) = {n}
       /\ pc = "jsonSave" => bytes = JsonBody(Window(log[n].idx, log[n].n))
  /\ (n > 0 /\ ImageSavedAt(n) /\ SaveJsonData) => pc = "jsonFetch"
  /\ (n > 0 /\ log[n].kind = "saveJson" /\ log[n].ok) =>
       /\ n >= 2 /\ log[n - 1].kind = "json" /\ log[n - 1].ok
       /\ log[n].target \in DOMAIN files
       /\ files[log[n].target] = JsonBody(Window(log[n - 1].idx, log[n - 1].n))
  /\ (pc = "done" /\ SaveJsonData) =>
       \A p \in 1..n : ImageSavedAt(p) => JsonRequests(log[p].day) = {p + 1}
  /\ ~SaveJsonData =>
       /\ \A p \in 1..n : log[p].kind \notin {"json", "saveJson"}
       /\ \A r \in ReturnedResults : NoJson(r)
       /\ \A j \in 1..Len(results) : NoJson(results[j])
       /\ (pc = "dayReturn" /\ result # <<>>) => NoJson(result[1])

\* C22 witness: a batch over three records with JSON saving ended; the image
\* of its second day failed, the third day's JSON request asked for (2, 1) and
\* the third result's JSON file holds the body of that request.
C22_Witness ==
  /\ BatchReturned /\ op = "DownloadLatestWallpapers" /\ SaveJsonData
  /\ Len(ret.list) = 3
  /\ ImageFailedOn(1) /\ JsonRequests(1) = {}
  /\ \E q \in JsonRequests(2) : log[q].idx = 2 /\ log[q].n = 1 /\ log[q].ok
  /\ ret.list[3].JsonPath \in DOMAIN files
  /\ files[ret.list[3].JsonPath] = JsonBody(Window(2, 1))

(* -------------------------------- C24 ---------------------------------- *)

\* The JSON file of result r holds one record, r's own.
HoldsOwnRecord(r) ==
  /\ r.JsonPath = GenerateJsonFilename(r.ImageData, OutputDir)
  /\ r.JsonPath \in DOMAIN files
  /\ files[r.JsonPath].decodable
  /\ files[r.JsonPath].images = <<r.ImageData>>

\* C24: when DownloadLatestWallpapers with JSON saving has returned, the JSON
\* file of every result that has one is bing_data_{D}.json for the start date
\* D of the result's record and holds that record, also when the archive
\* advanced by one day during the run.
C24_JsonFileHoldsItsRecord ==
  (BatchReturned /\ op = "DownloadLatestWallpapers" /\ SaveJsonData) =>
    \A j \in 1..Len(ret.list) :
      ret.list[j].JsonPath # <<>> => HoldsOwnRecord(ret.list[j])

\* A run in which the archive did not advance: a batch over three records
\* wrote three JSON files, each holding its result's record.
C24_UnshiftedRun ==
  /\ BatchReturned /\ op = "DownloadLatestWallpapers" /\ SaveJsonData
  /\ archive = 0
  /\ Len(ret.list) = 3
  /\ \A j \in 1..3 : ret.list[j].JsonPath # <<>> /\ HoldsOwnRecord(ret.list[j])

\* C24 witness: the archive advanced between the batch metadata request and
\* the JSON request of the second day, and the file named after the second
\* record holds the first.
C24_ShiftedFile ==
  /\ BatchReturned /\ op = "DownloadLatestWallpapers" /\ SaveJsonData
  /\ archive = 1
  /\ Len(ret.list) >= 2
  /\ ret.list[2].JsonPath = GenerateJsonFilename(ret.list[2].ImageData, OutputDir)
  /\ ret.list[2].JsonPath \in DOMAIN files
  /\ files[ret.list[2].JsonPath].images = <<ret.list[1].ImageData>>
  /\ ret.list[1].ImageData # ret.list[2].ImageData

(* -------------------------------- C21 ---------------------------------- *)

\* The command line ran a batch whose metadata request succeeded, and the
\* process has ended.
BatchRunEnded ==
  /\ cli.phase = "exited"
  /\ op = "DownloadLatestWallpapers"
  /\ log # <<>> /\ log[1].kind = "metadata" /\ log[1].ok

\* C21: when the process has ended after a batch whose metadata request
\* succeeded, it has printed the counts of the succeeded and the failed
\* results; they add up to the number of results, and the failed count is the
\* number of results with a download error, also when that number is not zero.
C21_CountsReported ==
  BatchRunEnded =>
    /\ cli.printed # <<>>
    /\ cli.printed[1].success + cli.printed[1].failed = Len(ret.list)
    /\ cli.printed[1].failed =
         Cardinality({j \in 1..Len(ret.list) : ret.list[j].DownloadErr # NoErr})

\* C21 witness: a batch over two days ended, the image request of its second
\* day had failed and the Downloader returned both results with the summary
\* error; the process ended with status 1 and printed no counts.
C21_ExitBeforeCounts ==
  /\ BatchRunEnded
  /\ Len(ret.list) = 2
  /\ ret.list[1].DownloadErr = NoErr /\ ret.list[2].DownloadErr # NoErr
  /\ ret.err # NoErr
  /\ cli.exit = 1
  /\ cli.printed = <<>>

(* -------------------------------- C25 ---------------------------------- *)

\* The command line has a fixed name and no -overwrite.
Guarded == cli.phase # "library" /\ cli.customName # <<>> /\ ~cli.overwrite

\* The path the images of a run with a fixed name are written to.
FixedTarget == ImageFilename(cli.customName, NoImageData, OutputDir)

\* This step writes a file at path.
Writes(path) ==
  /\ Len(log') = Len(log) + 1
  /\ log'[Len(log')].kind \in {"saveImage", "saveJson"}
  /\ log'[Len(log')].ok
  /\ log'[Len(log')].target = path

\* C25: in a run with a fixed name and without -overwrite no step writes the
\* fixed target path while a file exists there, whether it was there before
\* the run or was written by an earlier day of the run; and when a file is
\* there before the run, the run makes no request and no write at all.
C25_NoOverwrite ==
  [][(Guarded /\ FixedTarget \in DOMAIN files) =>
       /\ ~Writes(FixedTarget)
       /\ files'[FixedTarget] = files[FixedTarget]
       /\ log = <<>> => log' = <<>>]_vars

\* C25 witness: a run with a fixed name and without -overwrite started on an
\* output directory without the target; the images of two days were written
\* to the fixed target path, and the file holds the second.
C25_SecondDayOverwrote ==
  /\ Guarded
  /\ op = "DownloadLatestWallpapers"
  /\ \E p, q \in 1..Len(log) :
       /\ p < q
       /\ ImageSavedAt(p) /\ log[p].target = FixedTarget /\ log[p].day = 0
       /\ ImageSavedAt(q) /\ log[q].target = FixedTarget /\ log[q].day = 1
       /\ \A k \in 1..(p - 1) : log[k].kind \notin {"saveImage", "saveJson"}
  /\ files[FixedTarget] = ImageBody(GetBingImageURL(imageDataList[2], DefaultHighQuality))

====
